---- MODULE Spec2Model ----
(***************************************************************************)
(* Account rotation and dispatch orchestration of the Antigravity          *)
(* multi-account plugin: the AccountManager pool (src/plugin/accounts.ts)  *)
(* and the intercepting fetch of the plugin loader (plugin.ts).            *)
(***************************************************************************)
EXTENDS Integers, Sequences, FiniteSets, TLC

(***************************************************************************)
(* Bounds of the model.                                                    *)
(***************************************************************************)
\* Accounts in the pool, operations in a run of pool operations, the longest
\* window (ms) of a direct markRateLimited(), and the clock (ms) up to which
\* an intercepted call is followed.
MaxAccounts == 3
MaxOps == 6
MaxRetry == 2
MaxClock == 1
MaxCalls == 1

(***************************************************************************)
(* Program values.                                                         *)
(***************************************************************************)
\* JS null returned by getNext() when no account is available.
NoAccount == 0
\* JS undefined for an account's access / expires.
Undefined == 0
\* Before the first getNext() nothing has been returned.
NotCalled == -1
\* No response, no error: JS null for lastResponse / lastError.
NoResponse == [kind |-> "none"]
\* removeAccount(): return true / return false
ReturnedTrue == -2
ReturnedFalse == -3

VARIABLES
  accounts,      \* AccountManager.accounts : ManagedAccount[]
  currentIndex,  \* AccountManager.currentIndex
  now,           \* Date.now()
  ret,           \* what the latest getNext() or removeAccount() returned
  run,           \* indices returned by the latest consecutive getNext() calls
                 \* made with every account available
  lastSel,       \* the account the latest getNext() selected
  ops,           \* operations performed so far
  \* One intercepted call: fetch(input, init) of the loader.
  pc,              \* where the call is: loop, refresh, project, send,
                   \* done (idle: no call)
  accountCount,    \* accountManager.getAccountCount() at the start
  accountAttempts, \* let accountAttempts
  account,         \* position (1-based) of the selected account, 0: none
  i,               \* endpoint loop index
  response,        \* what the latest upstream fetch gave: a response or an exception
  lastResponse,    \* let lastResponse
  lastError,       \* let lastError
  hitRateLimit,    \* let hitRateLimit
  outcome,         \* what the call returned or threw
  tried,           \* results of the endpoints tried for the selected account
  selected,        \* accounts getNext() has returned in this call
  got429,          \* accounts that were answered HTTP 429 in this call
  nSelected,       \* number of accounts getNext() has returned in this call
  nSends,          \* number of upstream fetches in this call
  \* The credential-set encoding of auth.refresh.
  credentials,     \* a sequence of RefreshParts
  refresh,         \* formatMultiAccountRefresh of it: a string of characters
  multiAccount,    \* parseMultiAccountRefresh(refresh).accounts
  \* The credential store behind getAuth() and client.auth.set(...).
  stored,          \* the OAuthAuthDetails the store holds
  nWrites,         \* writes this call has made to the store
  revoked,         \* accounts whose refresh was answered invalid_grant
  calls,           \* intercepted calls that have finished before this one
  previous,        \* what the call before this one left behind
  inFlight,        \* the calls that run concurrently: their account managers
  \* The request of the call.
  body,            \* init.body: JSON text or text JSON.parse rejects
  nTranslations,   \* calls of prepareAntigravityRequest in this call
  \* The accounts file of the storage-backed manager.
  storage,         \* the AccountStorage last given to saveAccounts
  savedFrom,       \* the accounts of the manager when it was saved
  \* The response path: transformAntigravityResponse.
  sseBody,         \* the body of the upstream event stream
  source,          \* the part of it not yet read
  buffer,          \* let buffer
  enqueued,        \* what the controller has been given, concatenated
  nChunks,         \* chunks that went through transform
  \* The arguments of fetch(input, init).
  upstream,      \* the Response given to transformAntigravityResponse
  streaming,     \* its streaming argument
  threw,         \* a statement inside its try block has thrown
  transformed,   \* the Response it returned
  retryDelay,    \* the retryDelay of the RetryInfo detail in the upstream
                 \* error, in tenths of a second (0: no such detail)
  debugAppended, \* the debug text was appended to error.message of the body
  retryHeaders,  \* the Retry-After and retry-after-ms headers it has set
  tools,         \* requestPayload.tools before the normalization
  normalized,    \* requestPayload.tools after it
  renormalized,  \* the normalization applied to its own output
  tokenPayload,       \* what the token endpoint answered to refreshAccessToken
  refreshed,     \* what refreshAccessToken returned
  answered429,   \* history: which endpoint answered 429 to which account in
                 \* this call
  saveError,     \* client.auth.set of the success path threw (saveError)
  constructed,   \* managers constructed from an exported credential set
  marked,        \* history: the arguments of the latest markRateLimited()
                 \* and the reset time the account had before it
  readResult,    \* the reading method called last and what it returned
  conversation,  \* the tool parts of requestPayload.contents as the caller
                 \* sent them, in order
  contents,      \* requestPayload.contents: the same parts, as rewritten
  pendingCallIdsByName, \* const pendingCallIdsByName
  accessToken,   \* const accessToken = authRecord.access of the attempt
  tokenSource,   \* history: how the attempt came to its token: the stored
                 \* one passed the expiry check, or a refresh returned it
  input,           \* what input is: a string or not, its host, its text
  forwarded        \* the input handed to the global fetch as it was given

poolVars == <<accounts, currentIndex, now>>
histVars == <<ret, run, lastSel, ops>>
callVars == <<pc, accountCount, accountAttempts, account, i, response, lastResponse,
              lastError, hitRateLimit, outcome, tried, selected, got429,
              nSelected, nSends>>
codecVars == <<credentials, refresh, multiAccount>>
storeVars == <<stored, nWrites, revoked, calls, previous, inFlight>>
requestVars == <<body, nTranslations>>
fileVars == <<storage, savedFrom>>
responseVars == <<sseBody, source, buffer, enqueued, nChunks>>
passVars == <<input, forwarded>>
normVars == <<upstream, streaming, threw, transformed, retryDelay, debugAppended,
             retryHeaders>>
toolVars == <<tools, normalized, renormalized>>
tokenVars == <<tokenPayload, refreshed>>
endpointVars == <<answered429>>
saveVars == <<saveError>>
exportVars == <<constructed>>
markVars == <<marked>>
readVars == <<readResult>>
idVars == <<conversation, contents, pendingCallIdsByName>>
useVars == <<accessToken, tokenSource>>
vars == <<poolVars, histVars, callVars, codecVars, storeVars, requestVars, fileVars,
          responseVars, passVars, normVars, toolVars, tokenVars, endpointVars, saveVars,
          exportVars, markVars, readVars, idVars, useVars>>

Min(a, b) == IF a < b THEN a ELSE b
Max(a, b) == IF a > b THEN a ELSE b

RECURSIVE SetMin(_)
SetMin(S) ==
  LET x == CHOOSE y \in S : TRUE
  IN  IF S = {x} THEN x ELSE Min(x, SetMin(S \ {x}))

(***************************************************************************)
(* ManagedAccount                                                          *)
(***************************************************************************)
RefreshPartsOf(token) ==
  [refreshToken |-> token, projectId |-> token]

NewAccount(index, parts, access, expires) ==
  [index |-> index, parts |-> parts, access |-> access, expires |-> expires,
   isRateLimited |-> FALSE, rateLimitResetTime |-> 0, lastUsed |-> 0]

ConstructorMutAll(partsSeq, access, expires) ==
  [k \in 1..Len(partsSeq) |-> NewAccount(k - 1, partsSeq[k], access, expires)]

\* new AccountManager(auth): one account per parsed credential; only the
\* first one receives the stored access token and expiry.
Constructor(partsSeq, access, expires) ==
  [k \in 1..Len(partsSeq) |->
     NewAccount(k - 1, partsSeq[k],
                IF k = 1 THEN access ELSE Undefined,
                IF k = 1 THEN expires ELSE Undefined)]

Token(a) == a.parts.refreshToken

Tokens(accts) == {Token(accts[k]) : k \in 1..Len(accts)}

\* One more operation of the run.
Step == ops < MaxOps /\ ops' = ops + 1

(***************************************************************************)
(* getNext()                                                               *)
(***************************************************************************)
\* The filter predicate of getNext(): not rate-limited, or the window is over.
Filter(a, t) == (~a.isRateLimited) \/ t > a.rateLimitResetTime

ClearExpiredMutAll(accts, t) ==
  [k \in 1..Len(accts) |-> [accts[k] EXCEPT !.isRateLimited = FALSE]]

\* The filter's side effect: the flag of every expired window is cleared.
ClearExpired(accts, t) ==
  [k \in 1..Len(accts) |->
     IF accts[k].isRateLimited /\ t > accts[k].rateLimitResetTime
       THEN [accts[k] EXCEPT !.isRateLimited = FALSE]
       ELSE accts[k]]

\* Positions (1-based) of the accounts the filter keeps, in pool order.
RECURSIVE AvailableFrom(_, _, _)
AvailableFrom(accts, t, k) ==
  IF k > Len(accts) THEN <<>>
  ELSE IF Filter(accts[k], t)
         THEN <<k>> \o AvailableFrom(accts, t, k + 1)
         ELSE AvailableFrom(accts, t, k + 1)

Available(accts, t) == AvailableFrom(accts, t, 1)

\* Mutants of Pick: the cursor used without the modulo (an index past the end
\* reads undefined, which getNext() turns into null), and no rotation at all.
PickMutNoModulo(avail, cur) ==
  IF cur + 1 <= Len(avail) THEN avail[cur + 1] ELSE 0

PickMutFirst(avail, cur) == avail[1]

\* available[this.currentIndex % available.length]
Pick(avail, cur) == avail[(cur % Len(avail)) + 1]

\* The pool after getNext(), its cursor and the position it returns (0: null).
GetNextResult(accts, cur, t) ==
  LET avail   == Available(accts, t)
      cleared == ClearExpired(accts, t)
  IN  IF Len(avail) = 0
        THEN [accounts |-> cleared, currentIndex |-> cur, pos |-> 0]
        ELSE LET p == Pick(avail, cur)
             IN  IF p = 0
                   THEN [accounts |-> cleared, currentIndex |-> cur, pos |-> 0]
                   ELSE [accounts |-> [cleared EXCEPT ![p].lastUsed = t],
                         currentIndex |-> cur + 1, pos |-> p]

AllAvailable(accts, t) == Len(Available(accts, t)) = Len(accts)

GetNext ==
  /\ Step
  /\ LET r   == GetNextResult(accounts, currentIndex, now)
         tok == IF r.pos = 0 THEN NoAccount ELSE Token(accounts[r.pos])
     IN  /\ accounts' = r.accounts
         /\ currentIndex' = r.currentIndex
         /\ ret' = tok
         /\ lastSel' = IF r.pos = 0 THEN lastSel ELSE tok
         /\ run' = IF AllAvailable(accounts, now) /\ r.pos # 0
                     THEN Append(run, accounts[r.pos].index)
                     ELSE <<>>
  /\ UNCHANGED <<now, callVars, codecVars, useVars, idVars, readVars, markVars, exportVars, saveVars, endpointVars, tokenVars, toolVars, normVars, passVars, responseVars, fileVars, storeVars, requestVars>>

(***************************************************************************)
(* markRateLimited(account, retryAfterMs)                                  *)
(***************************************************************************)
MarkRateLimitedResultMutMerge(accts, p, retryAfterMs, t) ==
  [accts EXCEPT ![p].isRateLimited = TRUE,
                ![p].rateLimitResetTime =
                   Max(accts[p].rateLimitResetTime, t + retryAfterMs)]

MarkRateLimitedResult(accts, p, retryAfterMs, t) ==
  [accts EXCEPT ![p].isRateLimited = TRUE,
                ![p].rateLimitResetTime = t + retryAfterMs]

MarkRateLimited ==
  \E p \in 1..Len(accounts), d \in 0..MaxRetry :
    /\ Step
    /\ accounts' = MarkRateLimitedResult(accounts, p, d, now)
    /\ run' = <<>>
    /\ UNCHANGED <<currentIndex, now, ret, lastSel, callVars, codecVars, useVars, idVars, readVars, markVars, exportVars, saveVars, endpointVars, tokenVars, toolVars, normVars, passVars, responseVars, fileVars, storeVars, requestVars>>

(***************************************************************************)
(* addAccount(parts) / removeAccount(index)                                *)
(***************************************************************************)
AddAccountResultMutIndex(accts, parts, access, expires) ==
  Append(accts, NewAccount(Len(accts) + 1, parts, access, expires))

AddAccountResult(accts, parts, access, expires) ==
  Append(accts, NewAccount(Len(accts), parts, access, expires))

\* The credential of a newly authenticated account: tokens are opaque and
\* distinct, so the smallest unused one stands for any new one.
FreshToken(accts) == SetMin((1..MaxAccounts) \ Tokens(accts))

AddAccount ==
  /\ Step
  /\ Len(accounts) < MaxAccounts
  /\ accounts' = AddAccountResult(accounts, RefreshPartsOf(FreshToken(accounts)),
                                  Undefined, Undefined)
  /\ run' = <<>>
  /\ lastSel' = NoAccount
  /\ UNCHANGED <<currentIndex, now, ret, callVars, codecVars, useVars, idVars, readVars, markVars, exportVars, saveVars, endpointVars, tokenVars, toolVars, normVars, passVars, responseVars, fileVars, storeVars, requestVars>>

RemoveAccountResultMutNoReindex(accts, index) ==
  IF index < 0 \/ index >= Len(accts)
    THEN accts
    ELSE [k \in 1..(Len(accts) - 1) |->
            IF k <= index THEN accts[k] ELSE accts[k + 1]]

\* splice(index, 1) followed by the re-indexing forEach.
RemoveAccountResult(accts, index) ==
  IF index < 0 \/ index >= Len(accts)
    THEN accts
    ELSE [k \in 1..(Len(accts) - 1) |->
            LET a == IF k <= index THEN accts[k] ELSE accts[k + 1]
            IN  [a EXCEPT !.index = k - 1]]

\* The return value: false for an index outside the array, true otherwise.
RemoveAccountReturn(accts, index) ==
  IF index < 0 \/ index >= Len(accts) THEN ReturnedFalse ELSE ReturnedTrue

\* The indices a caller can pass: one below the array, each position, one
\* past the end.
RemoveIndices == (-1)..Len(accounts)

RemoveAccountAt(index) ==
    /\ Step
    /\ accounts' = RemoveAccountResult(accounts, index)
    /\ ret' = RemoveAccountReturn(accounts, index)
    /\ run' = <<>>
    /\ lastSel' = NoAccount
    /\ UNCHANGED <<currentIndex, now, callVars, codecVars, useVars, idVars, readVars, markVars, exportVars, saveVars, endpointVars, tokenVars, toolVars, normVars, passVars, responseVars, fileVars, storeVars, requestVars>>

RemoveAccount == \E index \in RemoveIndices : RemoveAccountAt(index)

(***************************************************************************)
(* getMinWaitTime()                                                        *)
(***************************************************************************)
\* The same call, with its arguments written to the history.
MarkRateLimitedCall ==
  \E p \in 1..Len(accounts), d \in 0..MaxRetry :
    /\ Step
    /\ accounts' = MarkRateLimitedResult(accounts, p, d, now)
    /\ marked' = [pos |-> p, retryAfterMs |-> d, op |-> ops',
                  resetBefore |-> accounts[p].rateLimitResetTime]
    /\ run' = <<>>
    /\ UNCHANGED <<currentIndex, now, ret, lastSel, callVars, codecVars, useVars, idVars, readVars, exportVars, saveVars, endpointVars, tokenVars, toolVars, normVars, passVars, responseVars, fileVars, storeVars, requestVars>>

GetMinWaitTime(accts, t) ==
  LET available == {k \in 1..Len(accts) :
                      (~accts[k].isRateLimited) \/ t > accts[k].rateLimitResetTime}
      waitTimes == {Max(0, accts[k].rateLimitResetTime - t) :
                      k \in {j \in 1..Len(accts) : accts[j].isRateLimited}}
  IN  IF available # {} THEN 0
      ELSE IF waitTimes # {} THEN SetMin(waitTimes) ELSE 0

(***************************************************************************)
(* The clock                                                               *)
(***************************************************************************)
Tick ==
  /\ Step
  /\ now' = now + 1
  /\ UNCHANGED <<accounts, currentIndex, ret, run, lastSel, callVars, codecVars, useVars, idVars, readVars, markVars, exportVars, saveVars, endpointVars, tokenVars, toolVars, normVars, passVars, responseVars, fileVars, storeVars, requestVars>>

(***************************************************************************)
(* The pool under arbitrary use                                            *)
(***************************************************************************)
\* The variables declared in the body of the account loop, which end with
\* each iteration.
NoIteration ==
  /\ account = 0
  /\ i = 0
  /\ response = NoResponse
  /\ lastResponse = NoResponse
  /\ lastError = NoResponse
  /\ hitRateLimit = FALSE
  /\ tried = <<>>

NoCall ==
  /\ accountAttempts = 0
  /\ NoIteration
  /\ outcome = [kind |-> "pending"]
  /\ selected = {}
  /\ got429 = {}
  /\ nSelected = 0
  /\ nSends = 0

\* No credential set is being encoded.
NoCodec ==
  /\ credentials = <<>>
  /\ refresh = <<>>
  /\ multiAccount = <<>>

\* markRateLimited() has not been called.
NotMarked == [pos |-> 0, retryAfterMs |-> 0, op |-> 0, resetBefore |-> 0]

\* No reading method has been called.
NotRead == [method |-> "none", value |-> 0]

\* The request has no tool parts.
NoContents ==
  /\ conversation = <<>>
  /\ contents = <<>>
  /\ pendingCallIdsByName = <<>>

\* No attempt has read an access token.
NoAccessToken ==
  /\ accessToken = Undefined
  /\ tokenSource = "none"

\* No credential store is attached.
NoStore ==
  /\ stored = [refresh |-> <<>>, access |-> Undefined, expires |-> Undefined]
  /\ nWrites = 0
  /\ revoked = {}
  /\ calls = 0
  /\ previous = [limited |-> {}, served |-> NoAccount]
  /\ inFlight = <<>>

\* No request is being translated.
NoRequest ==
  /\ body = "json"
  /\ nTranslations = 0

\* loadAccounts() finds no accounts file.
NoStorage == [accounts |-> <<>>, activeIndex |-> 0]

NoFile ==
  /\ storage = NoStorage
  /\ savedFrom = <<>>

RequestInfo(isString, host, mentionsApi) ==
  [isString |-> isString, host |-> host, mentionsApi |-> mentionsApi]

\* A string URL of the Generative Language API.
ApiRequest == RequestInfo(TRUE, "generativelanguage.googleapis.com", TRUE)

NotForwarded == [isString |-> FALSE]

\* The call is for the API and nothing was passed through.
NoPass ==
  /\ input = ApiRequest
  /\ forwarded = NotForwarded

\* A Response: its status, its content-type header, what its body text is,
\* and whether the body has been read (Response.bodyUsed).
UpstreamResponse(status, contentType, content, bodyUsed) ==
  [status |-> status, contentType |-> contentType, content |-> content,
   bodyUsed |-> bodyUsed]

\* What transformAntigravityResponse returns: the Response object it was
\* given, or one it built, with the status and whether the body can be read.
Returned(which, status, bodyUsed) ==
  [status |-> status, bodyUsed |-> bodyUsed, which |-> which]

NothingReturned == Returned("none", 0, FALSE)

\* headers.set('Retry-After', ...) and headers.set('retry-after-ms', ...)
\* have not been called.
NoRetryHeaders == [retryAfterMs |-> 0, has |-> FALSE, retryAfter |-> 0]

\* transformAntigravityResponse is not running.
NoNormalize ==
  /\ upstream = UpstreamResponse(0, "", "", FALSE)
  /\ streaming = FALSE
  /\ threw = FALSE
  /\ transformed = NothingReturned
  /\ retryDelay = 0
  /\ debugAppended = FALSE
  /\ retryHeaders = NoRetryHeaders

\* The answer of the token endpoint: ok, an error, or the error invalid_grant;
\* and for ok whether the JSON has a refresh_token and which.
TokenPayload(result, hasRefreshToken, refresh_token) ==
  [result |-> result, hasRefreshToken |-> hasRefreshToken,
   refresh_token |-> refresh_token]

NoPayload == TokenPayload("none", FALSE, <<>>)

\* undefined returned by refreshAccessToken.
NoAuth == [refresh |-> <<>>, access |-> Undefined, expires |-> Undefined]

\* refreshAccessToken is not running.
NoToken ==
  /\ tokenPayload = NoPayload
  /\ refreshed = NoAuth

\* The request has no tools.
NoTools ==
  /\ tools = <<>>
  /\ normalized = <<>>
  /\ renormalized = <<>>

\* No response is being transformed.
NoStream ==
  /\ sseBody = <<>>
  /\ source = <<>>
  /\ buffer = <<>>
  /\ enqueued = <<>>
  /\ nChunks = 0

NoHistory ==
  /\ ret = NotCalled
  /\ run = <<>>
  /\ lastSel = NoAccount
  /\ ops = 0

\* The access token stored with the credential set, and its lifetime (s).
StoredAccess == 1
ExpiresIn == 3600

Init ==
  /\ \E n \in 1..MaxAccounts :
       accounts = Constructor([k \in 1..n |-> RefreshPartsOf(k)],
                              StoredAccess, ExpiresIn * 1000)
  /\ currentIndex = 0
  /\ now = 0
  /\ NoHistory
  /\ NoCodec
  /\ NoStore
  /\ NoRequest
  /\ NoFile
  /\ NoStream
  /\ NoPass
  /\ NoNormalize
  /\ NoTools
  /\ NoToken
  /\ answered429 = {}
  /\ saveError = FALSE
  /\ constructed = 0
  /\ marked = NotMarked
  /\ readResult = NotRead
  /\ NoContents
  /\ NoAccessToken
  /\ pc = "idle"
  /\ accountCount = Len(accounts)
  /\ NoCall

Next ==
  \/ GetNext
  \/ MarkRateLimited
  \/ AddAccount
  \/ RemoveAccount
  \/ Tick

Spec == Init /\ [][Next]_vars

\* getNext(), markRateLimited() and the clock, with the history of the
\* marks.
MarkNext ==
  \/ GetNext
  \/ MarkRateLimitedCall
  \/ Tick

MarkSpec == Init /\ [][MarkNext]_vars

(***************************************************************************)
(* The credential-set encoding: auth.refresh                               *)
(***************************************************************************)
\* Strings are sequences of characters.  "|" separates the fields of one
\* credential, "||" the credentials of a set.
FieldSeparator == <<"|">>
RecordSeparator == <<"|", "|">>

\* RefreshParts; an absent projectId or managedProjectId is the empty string.
RefreshParts(refreshToken, projectId, managedProjectId) ==
  [refreshToken |-> refreshToken, projectId |-> projectId,
   managedProjectId |-> managedProjectId]

\* String.prototype.split(sep): the pieces between the occurrences of sep,
\* found from the left.
RECURSIVE SplitFrom(_, _, _, _)
SplitFrom(s, sep, k, piece) ==
  IF k > Len(s) THEN <<piece>>
  ELSE IF k + Len(sep) - 1 <= Len(s) /\ SubSeq(s, k, k + Len(sep) - 1) = sep
         THEN <<piece>> \o SplitFrom(s, sep, k + Len(sep), <<>>)
         ELSE SplitFrom(s, sep, k + 1, Append(piece, s[k]))

Split(s, sep) == SplitFrom(s, sep, 1, <<>>)

\* Array.prototype.join(sep)
RECURSIVE Join(_, _)
Join(strings, sep) ==
  IF strings = <<>> THEN <<>>
  ELSE IF Len(strings) = 1 THEN strings[1]
  ELSE strings[1] \o sep \o Join(Tail(strings), sep)

\* formatRefreshParts(parts): "refreshToken|projectId", then "|managedProjectId"
\* when there is one.
FormatRefreshParts(parts) ==
  LET base == parts.refreshToken \o FieldSeparator \o parts.projectId
  IN  IF parts.managedProjectId # <<>>
        THEN base \o FieldSeparator \o parts.managedProjectId
        ELSE base

\* parseRefreshParts(refresh): the first three fields.
ParseRefreshParts(s) ==
  LET fields == Split(s, FieldSeparator)
      Field(k) == IF k <= Len(fields) THEN fields[k] ELSE <<>>
  IN  RefreshParts(Field(1), Field(2), Field(3))

\* formatMultiAccountRefresh(multi): the credentials joined by "||".
FormatMultiAccountRefresh(accts) ==
  Join([k \in 1..Len(accts) |-> FormatRefreshParts(accts[k])], RecordSeparator)

HasRefreshToken(parts) == parts.refreshToken # <<>>

\* parseMultiAccountRefresh(refresh).accounts: the records between "||" that
\* have a refresh token.
ParseMultiAccountRefresh(s) ==
  IF s = <<>> THEN <<>>
  ELSE LET records == Split(s, RecordSeparator)
       IN  SelectSeq([k \in 1..Len(records) |-> ParseRefreshParts(records[k])],
                     HasRefreshToken)

\* Credentials with a non-empty refresh token and each project id present or
\* empty.
CredentialValues ==
  {RefreshParts(r, p, m) : r \in {<<"r">>, <<"s">>}, p \in {<<>>, <<"p">>},
                           m \in {<<>>, <<"m">>}}

\* Sequences of 1..MaxAccounts credentials.
CredentialSets ==
  UNION {[1..n -> CredentialValues] : n \in 1..MaxAccounts}

CodecInit ==
  /\ accounts = <<>>
  /\ currentIndex = 0
  /\ now = 0
  /\ NoHistory
  /\ pc = "format"
  /\ accountCount = 0
  /\ NoCall
  /\ credentials \in CredentialSets
  /\ refresh = <<>>
  /\ multiAccount = <<>>
  /\ NoStore
  /\ NoRequest
  /\ NoFile
  /\ NoStream
  /\ NoPass
  /\ NoNormalize
  /\ NoTools
  /\ NoToken
  /\ answered429 = {}
  /\ saveError = FALSE
  /\ constructed = 0
  /\ marked = NotMarked
  /\ readResult = NotRead
  /\ NoContents
  /\ NoAccessToken

\* refresh: formatMultiAccountRefresh({ accounts: refreshParts })
CodecFormat ==
  /\ pc = "format"
  /\ refresh' = FormatMultiAccountRefresh(credentials)
  /\ pc' = "parse"
  /\ UNCHANGED <<poolVars, histVars, accountCount, accountAttempts, account, i,
                 response, lastResponse, lastError, hitRateLimit, outcome, tried,
                 selected, got429, nSelected, nSends, credentials, multiAccount,
                 storeVars, requestVars, fileVars, responseVars, passVars, normVars, toolVars, tokenVars, endpointVars, saveVars, exportVars, markVars, readVars, idVars, useVars>>

\* const multiAccount = parseMultiAccountRefresh(auth.refresh)
CodecParse ==
  /\ pc = "parse"
  /\ multiAccount' = ParseMultiAccountRefresh(refresh)
  /\ pc' = "parsed"
  /\ UNCHANGED <<poolVars, histVars, accountCount, accountAttempts, account, i,
                 response, lastResponse, lastError, hitRateLimit, outcome, tried,
                 selected, got429, nSelected, nSends, credentials, refresh,
                 storeVars, requestVars, fileVars, responseVars, passVars, normVars, toolVars, tokenVars, endpointVars, saveVars, exportVars, markVars, readVars, idVars, useVars>>

CodecNext == CodecFormat \/ CodecParse

CodecSpec == CodecInit /\ [][CodecNext]_vars

(***************************************************************************)
(* The intercepted call: fetch(input, init)                                *)
(***************************************************************************)
\* ANTIGRAVITY_ENDPOINT_FALLBACKS: daily, autopush, prod.
NumEndpoints == 3
\* let retryAfterMs = 60000
DefaultRetryMs == 60000

\* Milliseconds that pass while the call is suspended in an await.
Delays == {dt \in {0, 1} : now + dt <= MaxClock}

\* A response header: absent (get() gives null) or its text, a string of
\* characters.
Absent == [has |-> FALSE, text |-> <<>>]
Header(text) == [has |-> TRUE, text |-> text]
HeaderTexts ==
  {<<>>, <<"0">>, <<"2">>, <<"1", "5">>, <<"-", "1">>, <<" ", "7">>, <<"3", "s">>,
   <<"x">>, <<"+", "4">>}
HeaderValues == {Absent} \cup {Header(t) : t \in HeaderTexts}

\* JS truthiness of what headers.get() gives: neither null nor "".
Truthy(h) == h.has /\ h.text # <<>>

Digits == {"0", "1", "2", "3", "4", "5", "6", "7", "8", "9"}
DigitValue(c) ==
  CASE c = "0" -> 0 [] c = "1" -> 1 [] c = "2" -> 2 [] c = "3" -> 3
    [] c = "4" -> 4 [] c = "5" -> 5 [] c = "6" -> 6 [] c = "7" -> 7
    [] c = "8" -> 8 [] c = "9" -> 9

\* The digits of s from position k on, up to the first other character.
RECURSIVE ParseDigits(_, _, _, _)
ParseDigits(s, k, acc, seen) ==
  IF k <= Len(s) /\ s[k] \in Digits
    THEN ParseDigits(s, k + 1, acc * 10 + DigitValue(s[k]), TRUE)
    ELSE [nan |-> ~seen, val |-> acc]

RECURSIVE SkipSpaces(_, _)
SkipSpaces(s, k) ==
  IF k <= Len(s) /\ s[k] = " " THEN SkipSpaces(s, k + 1) ELSE k

\* parseInt(s, 10): leading blanks, an optional sign, then digits; NaN
\* without a digit.
ParseInt(s) ==
  LET k    == SkipSpaces(s, 1)
      neg  == k <= Len(s) /\ s[k] = "-"
      sign == k <= Len(s) /\ (s[k] = "-" \/ s[k] = "+")
      d    == ParseDigits(s, IF sign THEN k + 1 ELSE k, 0, FALSE)
  IN  [nan |-> d.nan, val |-> IF neg THEN 0 - d.val ELSE d.val]

\* The window of a 429 response.
RetryAfterMs(resp) ==
  LET retryAfterHeader ==
        IF Truthy(resp.retryAfterMs) THEN resp.retryAfterMs ELSE resp.retryAfter
  IN  IF ~Truthy(retryAfterHeader) THEN DefaultRetryMs
      ELSE LET parsed == ParseInt(retryAfterHeader.text)
           IN  IF parsed.nan THEN DefaultRetryMs
               ELSE IF retryAfterHeader = resp.retryAfter
                      THEN parsed.val * 1000
                      ELSE parsed.val

Statuses == {200, 403, 404, 429, 500}

HttpResponse(status, ms, sec) ==
  [kind |-> "http", retryAfterMs |-> ms, retryAfter |-> sec, status |-> status]

Thrown == [kind |-> "throw"]

\* What one upstream fetch of the call can give: a status, with the retry
\* headers of a 429 giving the default window or a window that ends within
\* the call; or an exception.
Responses ==
  {HttpResponse(st, Absent, Absent) : st \in Statuses}
    \cup {HttpResponse(429, Header(<<"0">>), Absent), Thrown}

IsRateLimitMut5xx(status) == status = 429 \/ status >= 500

\* if (response.status === 429)
IsRateLimit(status) == status = 429

ShouldRetryEndpointMutNo404(status) == status = 403 \/ status >= 500

ShouldRetryEndpoint(status) == status = 403 \/ status = 404 \/ status >= 500

ShouldAttemptMutInclusive(attempts, maxAttempts) == attempts <= maxAttempts

\* while (accountAttempts < maxAccountAttempts)
ShouldAttempt(attempts, maxAttempts) == attempts < maxAttempts

\* The access token a refresh returns.
RefreshedAccess == 2

UpdateAccount(accts, p, access, expires) ==
  [accts EXCEPT ![p].access = access, ![p].expires = expires]

\* updateAccount(account, access, expires) on an account of the pool, as a
\* caller makes it after a refresh.
UpdateAccountAt(p) ==
  /\ Step
  /\ accounts' = UpdateAccount(accounts, p, RefreshedAccess, ExpiresIn * 1000)
  /\ UNCHANGED <<currentIndex, now, ret, run, lastSel, callVars, codecVars, useVars, idVars, readVars, markVars, exportVars, saveVars, endpointVars, tokenVars, toolVars, normVars,
                 passVars, responseVars, fileVars, storeVars, requestVars>>

\* The pool under the operations of AccountManager that write to it; the
\* clock stands still.
PoolNext ==
  \/ GetNext
  \/ MarkRateLimited
  \/ AddAccount
  \/ RemoveAccount
  \/ \E p \in 1..Len(accounts) : UpdateAccountAt(p)

PoolSpec == Init /\ [][PoolNext]_vars

\* The text of a token or project id of the model: the empty string for 0,
\* one digit otherwise; and the value such a text stands for.
TokenText(k) == IF k = 0 THEN <<>> ELSE <<CHOOSE c \in Digits : DigitValue(c) = k>>

TokenValue(s) == ParseDigits(s, 1, 0, FALSE).val

PartsText(parts) ==
  RefreshParts(TokenText(parts.refreshToken), TokenText(parts.projectId), <<>>)

PartsValue(parts) ==
  [refreshToken |-> TokenValue(parts.refreshToken),
   projectId |-> TokenValue(parts.projectId)]

AuthDetails(refreshText, access, expires) ==
  [refresh |-> refreshText, access |-> access, expires |-> expires]

\* new AccountManager(auth): the accounts of auth.refresh, or the single
\* account of the fallback branch when it holds none.
AccountManager(auth) ==
  LET parsedAccounts == ParseMultiAccountRefresh(auth.refresh)
  IN  IF Len(parsedAccounts) > 0
        THEN Constructor([k \in 1..Len(parsedAccounts) |-> PartsValue(parsedAccounts[k])],
                         auth.access, auth.expires)
        ELSE <<NewAccount(0, PartsValue(ParseRefreshParts(auth.refresh)),
                          auth.access, auth.expires)>>

\* toAuthDetails(): every account's parts, the first account's tokens.
ToAuthDetails(accts) ==
  AuthDetails(FormatMultiAccountRefresh([k \in 1..Len(accts) |-> PartsText(accts[k].parts)]),
              IF Len(accts) > 0 THEN accts[1].access ELSE Undefined,
              IF Len(accts) > 0 THEN accts[1].expires ELSE Undefined)

\* accountToAuth(account): the account's own credential and tokens.
AccountToAuth(a) ==
  AuthDetails(FormatRefreshParts(PartsText(a.parts)), a.access, a.expires)

\* The methods that only read the pool: getMinWaitTime(), getAccounts() (a
\* copy of the array), toAuthDetails() and accountToAuth(account).
GetMinWaitTimeCall ==
  /\ Step
  /\ readResult' = [method |-> "getMinWaitTime",
                    value |-> GetMinWaitTime(accounts, now)]
  /\ UNCHANGED <<poolVars, ret, run, lastSel, callVars, codecVars, useVars, idVars, markVars, exportVars, saveVars, endpointVars, tokenVars, toolVars, normVars,
                 passVars, responseVars, fileVars, storeVars, requestVars>>

GetAccountsCall ==
  /\ Step
  /\ readResult' = [method |-> "getAccounts", value |-> accounts]
  /\ UNCHANGED <<poolVars, ret, run, lastSel, callVars, codecVars, useVars, idVars, markVars, exportVars, saveVars, endpointVars, tokenVars, toolVars, normVars,
                 passVars, responseVars, fileVars, storeVars, requestVars>>

ToAuthDetailsCall ==
  /\ Step
  /\ readResult' = [method |-> "toAuthDetails", value |-> ToAuthDetails(accounts)]
  /\ UNCHANGED <<poolVars, ret, run, lastSel, callVars, codecVars, useVars, idVars, markVars, exportVars, saveVars, endpointVars, tokenVars, toolVars, normVars,
                 passVars, responseVars, fileVars, storeVars, requestVars>>

AccountToAuthCall ==
  /\ Step
  /\ \E p \in 1..Len(accounts) :
       readResult' = [method |-> "accountToAuth", value |-> AccountToAuth(accounts[p])]
  /\ UNCHANGED <<poolVars, ret, run, lastSel, callVars, codecVars, useVars, idVars, markVars, exportVars, saveVars, endpointVars, tokenVars, toolVars, normVars,
                 passVars, responseVars, fileVars, storeVars, requestVars>>

\* The pool under getNext(), markRateLimited(), the clock and the reading
\* methods.
ReadNext ==
  \/ GetNext
  \/ MarkRateLimited
  \/ Tick
  \/ GetMinWaitTimeCall
  \/ GetAccountsCall
  \/ ToAuthDetailsCall
  \/ AccountToAuthCall

ReadSpec == Init /\ [][ReadNext]_vars

\* toAuthDetails() of the pool, handed to the store.
Export ==
  /\ Step
  /\ stored' = ToAuthDetails(accounts)
  /\ nWrites' = nWrites + 1
  /\ UNCHANGED <<poolVars, ret, run, lastSel, callVars, codecVars, useVars, idVars, readVars, markVars, exportVars, saveVars, endpointVars, tokenVars, toolVars, normVars,
                 passVars, responseVars, fileVars, requestVars, revoked, calls, previous, inFlight>>

\* new AccountManager(auth) with the exported set.
Construct ==
  /\ Step
  /\ nWrites > 0
  /\ accounts' = AccountManager(stored)
  /\ currentIndex' = 0
  /\ constructed' = constructed + 1
  /\ run' = <<>>
  /\ lastSel' = NoAccount
  /\ UNCHANGED <<now, ret, callVars, codecVars, useVars, idVars, readVars, markVars, saveVars, endpointVars, tokenVars, toolVars, normVars,
                 passVars, responseVars, fileVars, storeVars, requestVars>>

\* The pool under the operations that change what it exports, its export and
\* the construction of a pool from the export.
ExportNext ==
  \/ AddAccount
  \/ RemoveAccount
  \/ \E p \in 1..Len(accounts) : UpdateAccountAt(p)
  \/ Export
  \/ Construct

ExportSpec == Init /\ [][ExportNext]_vars

\* clearedAuth of refreshAccessToken: the refreshed account's parts alone,
\* with an empty refresh token and no access token.
ClearedAuth(parts) ==
  AuthDetails(FormatRefreshParts(RefreshParts(<<>>, TokenText(parts.projectId), <<>>)),
              Undefined, Undefined)

\* The credential set a login of n accounts has stored.
StoredAuth(n) ==
  ToAuthDetails(Constructor([k \in 1..n |-> RefreshPartsOf(k)],
                            StoredAccess, ExpiresIn * 1000))

\* What refreshAccessToken can come to for an account: nothing without a
\* refresh token; otherwise fresh tokens, a failure, or invalid_grant.
RefreshResults(parts) ==
  IF parts.refreshToken = 0 THEN {"norefresh"} ELSE {"ok", "fail", "invalid_grant"}

\* isGenerativeLanguageRequest(input): a string that includes the host name.
IsGenerativeLanguageRequest(req) == req.isString /\ req.mentionsApi

\* isGenerativeLanguageRequest(input), then getAuth(),
\* new AccountManager(latestAuth), accountCount.
FetchStart ==
  /\ pc = "idle"
  /\ IsGenerativeLanguageRequest(input)
  /\ accounts' = AccountManager(stored)
  /\ currentIndex' = 0
  /\ accountCount' = Len(accounts')
  /\ accountAttempts' = 0
  /\ pc' = "loop"
  /\ UNCHANGED <<now, histVars, codecVars, useVars, idVars, readVars, markVars, exportVars, saveVars, endpointVars, tokenVars, toolVars, normVars, passVars, responseVars, fileVars, storeVars, requestVars, account, i, response, lastResponse, lastError,
                 hitRateLimit, outcome, tried, selected, got429, nSelected, nSends>>

MissingAccessTokenMutNever(access) == FALSE

\* if (!accessToken)
MissingAccessToken(access) == access = Undefined

\* The head of the account loop up to the first await: getNext(), the
\* all-rate-limited error, accountToAuth() and accessTokenExpired(), which is
\* imported from ./plugin/auth and may answer either way; without a refresh
\* an account that has no access token counts as a failed attempt.
SelectAccount ==
  /\ pc = "loop"
  /\ ShouldAttempt(accountAttempts, accountCount)
  /\ LET r == GetNextResult(accounts, currentIndex, now)
     IN  /\ accounts' = r.accounts
         /\ currentIndex' = r.currentIndex
         /\ IF r.pos = 0
              THEN /\ outcome' = [kind |-> "throw", error |-> "AllRateLimited",
                                  waitTimeMs |-> GetMinWaitTime(r.accounts, now)]
                   /\ pc' = "done"
                   /\ UNCHANGED <<account, selected, nSelected, tried, accountAttempts>>
              ELSE /\ account' = r.pos
                   /\ selected' = selected \cup {Token(accounts[r.pos])}
                   /\ nSelected' = nSelected + 1
                   /\ tried' = <<>>
                   /\ \E expired \in BOOLEAN :
                        IF expired
                          THEN pc' = "refresh" /\ UNCHANGED accountAttempts
                          ELSE IF MissingAccessToken(r.accounts[r.pos].access)
                                 THEN /\ pc' = "loop"
                                      /\ accountAttempts' = accountAttempts + 1
                                 ELSE pc' = "project" /\ UNCHANGED accountAttempts
                   /\ UNCHANGED outcome
  /\ UNCHANGED <<now, histVars, codecVars, idVars, readVars, markVars, exportVars, saveVars, endpointVars, tokenVars, toolVars, normVars, passVars, responseVars, fileVars, storeVars, requestVars, accountCount, i, response, lastResponse, lastError,
                 hitRateLimit, got429, nSends>>

FetchSelect == SelectAccount /\ UNCHANGED useVars

\* The loop ends without a return: the error after the loop.
FetchExhausted ==
  /\ pc = "loop"
  /\ ~ShouldAttempt(accountAttempts, accountCount)
  /\ outcome' = [kind |-> "throw", error |-> "FailedWithAnyAccount"]
  /\ pc' = "done"
  /\ UNCHANGED <<poolVars, histVars, codecVars, useVars, idVars, readVars, markVars, exportVars, saveVars, endpointVars, tokenVars, toolVars, normVars, passVars, responseVars, fileVars, storeVars, requestVars, accountCount, accountAttempts, account, i,
                 response, lastResponse, lastError, hitRateLimit, tried, selected,
                 got429, nSelected, nSends>>

\* await refreshAccessToken(...): fresh tokens or undefined.  Without a
\* refresh token it returns at once; on invalid_grant it first writes
\* clearedAuth to the store.  The token endpoint returns no new refresh
\* token here, so the account keeps its parts.
RefreshAccount ==
  /\ pc = "refresh"
  /\ \E result \in RefreshResults(accounts[account].parts) :
     \E dt \in IF result = "norefresh" THEN {0} ELSE Delays :
     LET written == result = "invalid_grant" IN
       /\ now' = now + dt
       /\ IF result = "ok"
            THEN /\ accounts' = UpdateAccount(accounts, account, RefreshedAccess,
                                              now' + ExpiresIn * 1000)
                 /\ pc' = "project"
                 /\ UNCHANGED <<accountAttempts, account>>
            ELSE /\ accountAttempts' = accountAttempts + 1
                 /\ pc' = "loop"
                 /\ account' = 0
                 /\ UNCHANGED accounts
       /\ revoked' = IF result = "invalid_grant"
                       THEN revoked \cup {Token(accounts[account])}
                       ELSE revoked
       /\ stored' = IF written THEN ClearedAuth(accounts[account].parts) ELSE stored
       /\ nWrites' = IF written THEN nWrites + 1 ELSE nWrites
  /\ UNCHANGED <<currentIndex, histVars, codecVars, idVars, readVars, markVars, exportVars, saveVars, endpointVars, tokenVars, toolVars, normVars, passVars, responseVars, fileVars, requestVars, calls, previous, inFlight,
                 accountCount, i,
                 response, lastResponse, lastError, hitRateLimit, outcome, tried,
                 selected, got429, nSelected, nSends>>

FetchRefresh == RefreshAccount /\ UNCHANGED useVars

\* await resolveProjectContext(authRecord): an error propagates to the caller;
\* otherwise the endpoint loop starts.  The clock is next read after the
\* following await fetch(...), whose delay covers the time spent here.
FetchProject ==
  /\ pc = "project"
  /\ \E ok \in BOOLEAN :
       CASE ~ok ->
              /\ pc' = "done"
              /\ outcome' = [kind |-> "throw", error |-> "ProjectContext"]
              /\ UNCHANGED <<i, lastError, lastResponse, hitRateLimit, nTranslations>>
         [] ok /\ body = "json" ->
              /\ pc' = "send"
              /\ i' = 0
              /\ lastError' = NoResponse
              /\ lastResponse' = NoResponse
              /\ hitRateLimit' = FALSE
              /\ UNCHANGED <<outcome, nTranslations>>
         [] ok /\ body = "malformed" ->
              /\ pc' = "done"
              /\ i' = NumEndpoints - 1
              /\ lastError' = Thrown
              /\ lastResponse' = NoResponse
              /\ hitRateLimit' = FALSE
              /\ nTranslations' = nTranslations + NumEndpoints
              /\ outcome' = [kind |-> "throw", error |-> "Translation"]
  /\ UNCHANGED <<poolVars, histVars, codecVars, useVars, idVars, readVars, markVars, exportVars, saveVars, endpointVars, tokenVars, toolVars, normVars, passVars, responseVars, fileVars, storeVars, body, accountCount,
                 accountAttempts, account, response, tried, selected, got429,
                 nSelected, nSends>>

\* prepareAntigravityRequest(...) and await fetch(request, transformedInit)
\* on endpoint i: the await takes dt and gives resp (a response or an
\* exception), which the code handles without another await.
Receive(resp, dt) ==
  /\ pc = "send"
  /\ i < NumEndpoints
  /\ now' = now + dt
  /\ response' = resp
  /\ nTranslations' = nTranslations + 1
  /\ nSends' = nSends + 1

\* status 429: mark the account, set hitRateLimit and leave the endpoint loop;
\* after it hitRateLimit counts the attempt and the iteration ends, and with
\* it the variables of the loop body.
RateLimited(resp, dt) ==
  /\ Receive(resp, dt)
  /\ resp.kind = "http"
  /\ IsRateLimit(resp.status)
  /\ accounts' = MarkRateLimitedResult(accounts, account, RetryAfterMs(resp), now')
  /\ got429' = got429 \cup {Token(accounts[account])}
  /\ accountAttempts' = accountAttempts + 1
  /\ account' = 0
  /\ i' = 0
  /\ lastResponse' = NoResponse
  /\ lastError' = NoResponse
  /\ hitRateLimit' = FALSE
  /\ tried' = <<>>
  /\ pc' = "loop"
  /\ UNCHANGED <<currentIndex, histVars, codecVars, useVars, idVars, readVars, markVars, exportVars, saveVars, tokenVars, toolVars, normVars, passVars, responseVars, fileVars, storeVars, body, accountCount, outcome,
                 selected, nSelected>>

FetchRateLimited ==
  /\ \E resp \in Responses, dt \in Delays : RateLimited(resp, dt)
  /\ UNCHANGED answered429

\* The same step, with the endpoint and the account written to the history.
EndpointRateLimited ==
  /\ \E resp \in Responses, dt \in Delays : RateLimited(resp, dt)
  /\ answered429' = answered429 \cup {[endpoint |-> i, acct |-> Token(accounts[account])]}

Tried(resp) ==
  Append(tried, [status |-> IF resp.kind = "http" THEN resp.status ELSE 0,
                 endpoint |-> i])

\* 403, 404 or 5xx before the last endpoint: remember it, try the next one.
FetchNextEndpoint ==
  /\ \E resp \in Responses, dt \in Delays :
       /\ Receive(resp, dt)
       /\ resp.kind = "http"
       /\ ~IsRateLimit(resp.status)
       /\ ShouldRetryEndpoint(resp.status) /\ i < NumEndpoints - 1
       /\ lastResponse' = resp
       /\ tried' = Tried(resp)
  /\ i' = i + 1
  /\ UNCHANGED <<accounts, currentIndex, histVars, codecVars, useVars, idVars, readVars, markVars, exportVars, saveVars, endpointVars, tokenVars, toolVars, normVars, passVars, responseVars, fileVars, storeVars, body, pc, accountCount,
                 accountAttempts, account, lastError, hitRateLimit, outcome,
                 selected, got429, nSelected>>

\* Any other status, or the last endpoint: await client.auth.set(...) with
\* toAuthDetails(), then return transformAntigravityResponse(response, ...).
\* The store takes every write: a write that throws is only logged and
\* leaves the call as it is.
\* The call reads the clock no more, so the time its last awaits take is
\* left out.
FetchSuccess ==
  /\ \E resp \in Responses :
       /\ Receive(resp, 0)
       /\ resp.kind = "http"
       /\ ~IsRateLimit(resp.status)
       /\ ~(ShouldRetryEndpoint(resp.status) /\ i < NumEndpoints - 1)
       /\ tried' = Tried(resp)
       /\ outcome' = [kind |-> "response", status |-> resp.status,
                      endpoint |-> i, acct |-> Token(accounts[account])]
       /\ stored' = ToAuthDetails(accounts)
       /\ nWrites' = nWrites + 1
  /\ pc' = "done"
  /\ UNCHANGED <<accounts, currentIndex, histVars, codecVars, useVars, idVars, readVars, markVars, exportVars, saveVars, endpointVars, tokenVars, toolVars, normVars, passVars, responseVars, fileVars, body, revoked, calls, previous,
                 inFlight,
                 accountCount, accountAttempts, account, i, lastResponse, lastError,
                 hitRateLimit, selected, got429, nSelected>>

\* catch (error) before the last endpoint: remember it, try the next one.
FetchCatchNext ==
  /\ \E resp \in Responses, dt \in Delays :
       /\ Receive(resp, dt)
       /\ resp.kind = "throw"
       /\ i < NumEndpoints - 1
       /\ lastError' = resp
       /\ tried' = Tried(resp)
  /\ i' = i + 1
  /\ UNCHANGED <<accounts, currentIndex, histVars, codecVars, useVars, idVars, readVars, markVars, exportVars, saveVars, endpointVars, tokenVars, toolVars, normVars, passVars, responseVars, fileVars, storeVars, body, pc, accountCount,
                 accountAttempts, account, lastResponse, hitRateLimit, outcome,
                 selected, got429, nSelected>>

\* catch (error) on the last endpoint: throw error.
FetchCatchFinal ==
  /\ \E resp \in Responses :
       /\ Receive(resp, 0)
       /\ resp.kind = "throw"
       /\ ~(i < NumEndpoints - 1)
       /\ tried' = Tried(resp)
  /\ outcome' = [kind |-> "throw", error |-> "Transport"]
  /\ pc' = "done"
  /\ UNCHANGED <<accounts, currentIndex, histVars, codecVars, useVars, idVars, readVars, markVars, exportVars, saveVars, endpointVars, tokenVars, toolVars, normVars, passVars, responseVars, fileVars, storeVars, body, accountCount,
                 accountAttempts,
                 account, i, lastResponse, lastError, hitRateLimit, selected,
                 got429, nSelected>>

\* The bodies a caller can pass: JSON text, or text that JSON.parse rejects.
Bodies == {"json", "malformed"}

FetchInit ==
  /\ accounts = <<>>
  /\ currentIndex = 0
  /\ now = 0
  /\ NoHistory
  /\ NoCodec
  /\ \E n \in 1..MaxAccounts : stored = StoredAuth(n)
  /\ nWrites = 0
  /\ revoked = {}
  /\ calls = 0
  /\ previous = [limited |-> {}, served |-> NoAccount]
  /\ inFlight = <<>>
  /\ body \in Bodies
  /\ nTranslations = 0
  /\ NoFile
  /\ NoStream
  /\ NoPass
  /\ NoNormalize
  /\ NoTools
  /\ NoToken
  /\ answered429 = {}
  /\ saveError = FALSE
  /\ constructed = 0
  /\ marked = NotMarked
  /\ readResult = NotRead
  /\ NoContents
  /\ NoAccessToken
  /\ pc = "idle"
  /\ accountCount = 0
  /\ NoCall

FetchNext ==
  \/ FetchStart
  \/ FetchSelect
  \/ FetchExhausted
  \/ FetchRefresh
  \/ FetchProject
  \/ FetchRateLimited
  \/ FetchNextEndpoint
  \/ FetchSuccess
  \/ FetchCatchNext
  \/ FetchCatchFinal

FetchSpec == FetchInit /\ [][FetchNext]_vars

\* await client.auth.set({ body }) inside try / catch (saveError): the store
\* holds the body afterwards, unless the write threw.
AuthSetMutSkip(store, authBody, throws) == store

AuthSet(store, authBody, throws) == IF throws THEN store ELSE authBody

\* The success path with a store whose write may throw: the catch logs
\* saveError and the return follows either way.
FetchSuccessSave ==
  /\ \E resp \in Responses, throws \in BOOLEAN :
       /\ Receive(resp, 0)
       /\ resp.kind = "http"
       /\ ~IsRateLimit(resp.status)
       /\ ~(ShouldRetryEndpoint(resp.status) /\ i < NumEndpoints - 1)
       /\ tried' = Tried(resp)
       /\ stored' = AuthSet(stored, ToAuthDetails(accounts), throws)
       /\ nWrites' = IF throws THEN nWrites ELSE nWrites + 1
       /\ saveError' = throws
       /\ outcome' = [kind |-> "response", status |-> resp.status,
                      endpoint |-> i, acct |-> Token(accounts[account])]
  /\ pc' = "done"
  /\ UNCHANGED <<accounts, currentIndex, histVars, codecVars, useVars, idVars, readVars, markVars, exportVars, endpointVars, tokenVars, toolVars, normVars, passVars, responseVars, fileVars, body, revoked, calls, previous,
                 inFlight,
                 accountCount, accountAttempts, account, i, lastResponse, lastError,
                 hitRateLimit, selected, got429, nSelected>>

SaveNext ==
  \/ FetchStart
  \/ FetchSelect
  \/ FetchExhausted
  \/ FetchRefresh
  \/ FetchProject
  \/ FetchRateLimited
  \/ FetchNextEndpoint
  \/ FetchSuccessSave
  \/ FetchCatchNext
  \/ FetchCatchFinal

SaveSpec == FetchInit /\ [][SaveNext]_vars

\* The same steps, with the access token of the attempt and where it came
\* from: authRecord.access of accountToAuth(account) when the expiry check
\* let it pass, refreshed.access after a refresh.
UseSelect ==
  /\ SelectAccount
  /\ IF pc' = "project"
       THEN /\ accessToken' = accounts'[account'].access
            /\ tokenSource' = "unexpired"
       ELSE /\ accessToken' = Undefined
            /\ tokenSource' = "none"

UseRefresh ==
  /\ RefreshAccount
  /\ IF pc' = "project"
       THEN /\ accessToken' = RefreshedAccess
            /\ tokenSource' = "refreshed"
       ELSE /\ accessToken' = Undefined
            /\ tokenSource' = "none"

UseNext ==
  \/ FetchStart
  \/ UseSelect
  \/ FetchExhausted
  \/ UseRefresh
  \/ FetchProject
  \/ FetchRateLimited
  \/ FetchNextEndpoint
  \/ FetchSuccess
  \/ FetchCatchNext
  \/ FetchCatchFinal

UseSpec == FetchInit /\ [][UseNext]_vars

\* The call with the history of its 429 answers.
EndpointNext ==
  \/ FetchStart
  \/ FetchSelect
  \/ FetchExhausted
  \/ FetchRefresh
  \/ FetchProject
  \/ EndpointRateLimited
  \/ FetchNextEndpoint
  \/ FetchSuccess
  \/ FetchCatchNext
  \/ FetchCatchFinal

EndpointSpec == FetchInit /\ [][EndpointNext]_vars

\* Every await of the call resolves.
FetchLive == FetchSpec /\ WF_vars(FetchNext)

\* What a caller can pass as input: a string URL of the API; a string URL of
\* another host, with or without the API's host name somewhere in its text;
\* a Request object for another host.
Inputs ==
  {ApiRequest,
   RequestInfo(TRUE, "example.com", FALSE),
   RequestInfo(TRUE, "example.com", TRUE),
   RequestInfo(FALSE, "example.com", FALSE)}

\* if (!isGenerativeLanguageRequest(input)) return fetch(input, init)
FetchPassThrough ==
  /\ pc = "idle"
  /\ ~IsGenerativeLanguageRequest(input)
  /\ forwarded' = input
  /\ outcome' = [kind |-> "forwarded"]
  /\ pc' = "done"
  /\ UNCHANGED <<poolVars, histVars, codecVars, useVars, idVars, readVars, markVars, exportVars, saveVars, endpointVars, tokenVars, toolVars, normVars, storeVars, requestVars, fileVars,
                 responseVars, input, accountCount, accountAttempts, account, i,
                 response, lastResponse, lastError, hitRateLimit, tried, selected,
                 got429, nSelected, nSends>>

InterceptInit ==
  /\ accounts = <<>>
  /\ currentIndex = 0
  /\ now = 0
  /\ NoHistory
  /\ NoCodec
  /\ \E n \in 1..MaxAccounts : stored = StoredAuth(n)
  /\ nWrites = 0
  /\ revoked = {}
  /\ calls = 0
  /\ previous = [limited |-> {}, served |-> NoAccount]
  /\ inFlight = <<>>
  /\ NoRequest
  /\ NoFile
  /\ NoStream
  /\ input \in Inputs
  /\ forwarded = NotForwarded
  /\ NoNormalize
  /\ NoTools
  /\ NoToken
  /\ answered429 = {}
  /\ saveError = FALSE
  /\ constructed = 0
  /\ marked = NotMarked
  /\ readResult = NotRead
  /\ NoContents
  /\ NoAccessToken
  /\ pc = "idle"
  /\ accountCount = 0
  /\ NoCall

InterceptNext == FetchPassThrough \/ FetchNext

InterceptSpec == InterceptInit /\ [][InterceptNext]_vars

\* The accounts of the call's manager whose rate-limit window is open.
StillLimited ==
  {[acct |-> Token(accounts[k]), until |-> accounts[k].rateLimitResetTime] :
     k \in {p \in 1..Len(accounts) :
              accounts[p].isRateLimited /\ now <= accounts[p].rateLimitResetTime}}

\* The next intercepted call: the manager of the finished call is dropped,
\* the store and the clock are what the call left.
FetchAgain ==
  /\ pc = "done"
  /\ calls < MaxCalls
  /\ calls' = calls + 1
  /\ previous' = [limited |-> StillLimited,
                  served |-> IF outcome.kind = "response" /\ outcome.status = 200
                               THEN outcome.acct
                               ELSE NoAccount]
  /\ accounts' = <<>>
  /\ currentIndex' = 0
  /\ pc' = "idle"
  /\ accountCount' = 0
  /\ accountAttempts' = 0
  /\ account' = 0
  /\ i' = 0
  /\ response' = NoResponse
  /\ lastResponse' = NoResponse
  /\ lastError' = NoResponse
  /\ hitRateLimit' = FALSE
  /\ tried' = <<>>
  /\ outcome' = [kind |-> "pending"]
  /\ selected' = {}
  /\ got429' = {}
  /\ nSelected' = 0
  /\ nSends' = 0
  /\ nWrites' = 0
  /\ nTranslations' = 0
  /\ UNCHANGED <<now, histVars, codecVars, useVars, idVars, readVars, markVars, exportVars, saveVars, endpointVars, tokenVars, toolVars, normVars, passVars, responseVars, fileVars, stored, revoked, inFlight, body>>

SessionNext == FetchNext \/ FetchAgain

SessionSpec == FetchInit /\ [][SessionNext]_vars

\* The 429 handling on its own: the call has selected the first account of a
\* new manager, whose stored access token is still valid, and the first
\* endpoint answers 429 with any pair of retry headers.
RetryInit ==
  /\ \E n \in 1..MaxAccounts :
       accounts = [Constructor([k \in 1..n |-> RefreshPartsOf(k)],
                               StoredAccess, ExpiresIn * 1000)
                     EXCEPT ![1].lastUsed = 0]
  /\ currentIndex = 1
  /\ now \in {0, 1}
  /\ NoHistory
  /\ NoCodec
  /\ stored = StoredAuth(Len(accounts))
  /\ nWrites = 0
  /\ revoked = {}
  /\ calls = 0
  /\ previous = [limited |-> {}, served |-> NoAccount]
  /\ inFlight = <<>>
  /\ NoRequest
  /\ NoFile
  /\ NoStream
  /\ NoPass
  /\ NoNormalize
  /\ NoTools
  /\ NoToken
  /\ answered429 = {}
  /\ saveError = FALSE
  /\ constructed = 0
  /\ marked = NotMarked
  /\ readResult = NotRead
  /\ NoContents
  /\ NoAccessToken
  /\ pc = "send"
  /\ accountCount = Len(accounts)
  /\ accountAttempts = 0
  /\ account = 1
  /\ i = 0
  /\ response = NoResponse
  /\ lastResponse = NoResponse
  /\ lastError = NoResponse
  /\ hitRateLimit = FALSE
  /\ outcome = [kind |-> "pending"]
  /\ tried = <<>>
  /\ selected = {Token(accounts[1])}
  /\ got429 = {}
  /\ nSelected = 1
  /\ nSends = 0

RetryRateLimited ==
  /\ \E ms \in HeaderValues, sec \in HeaderValues :
       RateLimited(HttpResponse(429, ms, sec), 0)
  /\ UNCHANGED answered429

RetryNext == RetryRateLimited

RetrySpec == RetryInit /\ [][RetryNext]_vars

(***************************************************************************)
(* The streaming branch of transformAntigravityResponse: the TransformStream *)
(* that rewrites the events of an SSE body as its chunks arrive.  A body is  *)
(* text over a few characters: the line feed, the blank, "d" for the line    *)
(* prefix `data:`, "r" for the JSON text of an object that has a `response`, *)
(* and "t" for JSON.stringify of the transformed response.                   *)
(***************************************************************************)

MaxBody == 5

Characters == {"\n", " ", "d", "r"}

SseBodies == UNION {[1..n -> Characters] : n \in 0..MaxBody}

EventDelimiter == <<"\n", "\n">>

Whitespace == {"\n", " "}

\* String.prototype.trim()
RECURSIVE TrimStart(_)
TrimStart(s) ==
  IF s # <<>> /\ s[1] \in Whitespace THEN TrimStart(Tail(s)) ELSE s

RECURSIVE TrimEnd(_)
TrimEnd(s) ==
  IF s # <<>> /\ s[Len(s)] \in Whitespace THEN TrimEnd(SubSeq(s, 1, Len(s) - 1)) ELSE s

Trim(s) == TrimEnd(TrimStart(s))

\* The function mapped over the lines of a payload.
TransformLine(line) ==
  IF ~(line # <<>> /\ line[1] = "d") THEN line
  ELSE LET json == Trim(Tail(line))
       IN  IF json = <<>> THEN line
           ELSE IF json = <<"r">> THEN <<"d", " ", "t">>
           ELSE line

TransformStreamingPayload(payload) ==
  LET lines == Split(payload, <<"\n">>)
  IN  Join([k \in 1..Len(lines) |-> TransformLine(lines[k])], <<"\n">>)

KeepLastMutDrop(events) == <<>>

\* buffer = events.pop() || ""
KeepLast(events) == events[Len(events)]

\* What the loop over the complete events enqueues.
RECURSIVE EnqueueEvents(_)
EnqueueEvents(events) ==
  IF events = <<>> THEN <<>>
  ELSE (IF Trim(Head(events)) # <<>>
          THEN TransformStreamingPayload(Head(events)) \o EventDelimiter
          ELSE <<>>)
       \o EnqueueEvents(Tail(events))

TransformChunkMutEager(buf, chunk) ==
  [buffer |-> <<>>, out |-> EnqueueEvents(Split(buf \o chunk, EventDelimiter))]

\* transform(chunk, controller): the new buffer and what is enqueued.
TransformChunk(buf, chunk) ==
  LET events == Split(buf \o chunk, EventDelimiter)
  IN  [buffer |-> KeepLast(events),
       out |-> EnqueueEvents(SubSeq(events, 1, Len(events) - 1))]

\* flush(controller): what is enqueued at the end of the stream.
FlushChunk(buf) ==
  IF Trim(buf) # <<>> THEN TransformStreamingPayload(buf) ELSE <<>>

\* The output for a body that arrives as one chunk.
OneChunk(text) ==
  LET r == TransformChunk(<<>>, text)
  IN  r.out \o FlushChunk(r.buffer)

StreamInit ==
  /\ accounts = <<>>
  /\ currentIndex = 0
  /\ now = 0
  /\ NoHistory
  /\ NoCodec
  /\ NoStore
  /\ NoRequest
  /\ NoFile
  /\ pc = "stream"
  /\ accountCount = 0
  /\ NoCall
  /\ sseBody \in SseBodies
  /\ source = sseBody
  /\ buffer = <<>>
  /\ enqueued = <<>>
  /\ nChunks = 0
  /\ NoPass
  /\ NoNormalize
  /\ NoTools
  /\ NoToken
  /\ answered429 = {}
  /\ saveError = FALSE
  /\ constructed = 0
  /\ marked = NotMarked
  /\ readResult = NotRead
  /\ NoContents
  /\ NoAccessToken

\* The next chunk of the body, of any length, goes through transform.
StreamTransform ==
  /\ pc = "stream"
  /\ \E n \in 1..Len(source) :
       LET r == TransformChunk(buffer, SubSeq(source, 1, n))
       IN  /\ buffer' = r.buffer
           /\ enqueued' = enqueued \o r.out
           /\ source' = SubSeq(source, n + 1, Len(source))
  /\ nChunks' = nChunks + 1
  /\ UNCHANGED <<poolVars, histVars, callVars, codecVars, useVars, idVars, readVars, markVars, exportVars, saveVars, endpointVars, tokenVars, toolVars, normVars, passVars, storeVars, requestVars,
                 fileVars, sseBody>>

\* The body has ended: flush.
StreamFlush ==
  /\ pc = "stream"
  /\ source = <<>>
  /\ enqueued' = enqueued \o FlushChunk(buffer)
  /\ buffer' = buffer
  /\ pc' = "flushed"
  /\ UNCHANGED <<poolVars, histVars, accountCount, accountAttempts, account, i,
                 response, lastResponse, lastError, hitRateLimit, outcome, tried,
                 selected, got429, nSelected, nSends, codecVars, useVars, idVars, readVars, markVars, exportVars, saveVars, endpointVars, tokenVars, toolVars, normVars, passVars, storeVars,
                 requestVars, fileVars, sseBody, source, nChunks>>

StreamNext == StreamTransform \/ StreamFlush

StreamSpec == StreamInit /\ [][StreamNext]_vars

(***************************************************************************)
(* refreshAccessToken(auth, client, providerId)                            *)
(***************************************************************************)
TokenPayloads ==
  {TokenPayload("ok", FALSE, <<>>), TokenPayload("ok", TRUE, <<"t">>),
   TokenPayload("ok", TRUE, <<>>), TokenPayload("fail", FALSE, <<>>),
   TokenPayload("invalid_grant", FALSE, <<>>)}

TokenRefreshedPartsMutKeep(parts, answer) == parts

\* refreshToken: payload.refresh_token ?? parts.refreshToken, the project
\* ids those of parts.
TokenRefreshedParts(parts, answer) ==
  RefreshParts(IF answer.hasRefreshToken THEN answer.refresh_token
                                         ELSE parts.refreshToken,
               parts.projectId, parts.managedProjectId)

\* updatedAuth
UpdatedAuth(auth, answer, t) ==
  AuthDetails(FormatRefreshParts(TokenRefreshedParts(ParseRefreshParts(auth.refresh),
                                                     answer)),
              RefreshedAccess, t + ExpiresIn * 1000)

\* clearedAuth of the invalid_grant branch
ClearedAuthOf(auth) ==
  LET parts == ParseRefreshParts(auth.refresh)
  IN  AuthDetails(FormatRefreshParts(RefreshParts(<<>>, parts.projectId,
                                                  parts.managedProjectId)),
                  Undefined, Undefined)

\* The stored credential of one account whose access token has expired.
TokenInit ==
  /\ accounts = <<>>
  /\ currentIndex = 0
  /\ now = 0
  /\ NoHistory
  /\ credentials \in {<<c>> : c \in CredentialValues}
  /\ refresh = FormatRefreshParts(credentials[1])
  /\ multiAccount = <<>>
  /\ stored = AuthDetails(refresh, StoredAccess, 0)
  /\ nWrites = 0
  /\ revoked = {}
  /\ calls = 0
  /\ previous = [limited |-> {}, served |-> NoAccount]
  /\ inFlight = <<>>
  /\ NoRequest
  /\ NoFile
  /\ NoStream
  /\ NoPass
  /\ NoNormalize
  /\ NoTools
  /\ NoToken
  /\ answered429 = {}
  /\ saveError = FALSE
  /\ constructed = 0
  /\ marked = NotMarked
  /\ readResult = NotRead
  /\ NoContents
  /\ NoAccessToken
  /\ pc = "token"
  /\ accountCount = 0
  /\ NoCall

\* await fetch("https://oauth2.googleapis.com/token", ...)
TokenRequest ==
  /\ pc = "token"
  /\ \E answer \in TokenPayloads, dt \in Delays :
       /\ tokenPayload' = answer
       /\ now' = now + dt
  /\ pc' = "answered"
  /\ UNCHANGED <<accounts, currentIndex, histVars, codecVars, useVars, idVars, readVars, markVars, exportVars, saveVars, endpointVars, storeVars, requestVars,
                 fileVars, responseVars, passVars, normVars, toolVars, refreshed,
                 accountCount, accountAttempts, account, i, response, lastResponse,
                 lastError, hitRateLimit, outcome, tried, selected, got429,
                 nSelected, nSends>>

\* The rest of refreshAccessToken: not ok returns undefined, after writing
\* clearedAuth to the store when the error is invalid_grant; ok returns
\* updatedAuth.
TokenReturn ==
  /\ pc = "answered"
  /\ LET auth == AuthDetails(refresh, StoredAccess, 0)
     IN  CASE tokenPayload.result = "ok" ->
                /\ refreshed' = UpdatedAuth(auth, tokenPayload, now)
                /\ UNCHANGED <<stored, nWrites>>
           [] tokenPayload.result = "invalid_grant" ->
                /\ refreshed' = NoAuth
                /\ stored' = ClearedAuthOf(auth)
                /\ nWrites' = nWrites + 1
           [] tokenPayload.result = "fail" ->
                /\ refreshed' = NoAuth
                /\ UNCHANGED <<stored, nWrites>>
  /\ pc' = "refreshed"
  /\ UNCHANGED <<poolVars, histVars, codecVars, useVars, idVars, readVars, markVars, exportVars, saveVars, endpointVars, requestVars, fileVars, responseVars,
                 passVars, normVars, toolVars, tokenPayload, revoked, calls, previous,
                 inFlight, accountCount, accountAttempts, account, i, response,
                 lastResponse, lastError, hitRateLimit, outcome, tried, selected,
                 got429, nSelected, nSends>>

TokenNext == TokenRequest \/ TokenReturn

TokenSpec == TokenInit /\ [][TokenNext]_vars

(***************************************************************************)
(* prepareAntigravityRequest: the default normalization of tools           *)
(***************************************************************************)
\* Schemas are opaque objects; Undefined stands for a missing or falsy one.
MaxSchema == 2
Schemas == 1..MaxSchema
SchemaValues == {Undefined} \cup Schemas

\* { type: "object", properties: {}, additionalProperties: false }
DefaultSchema == -1

\* tool.function and tool.custom: present or not, and the schema fields the
\* normalization reads.  The fields of a missing object read as undefined.
FunctionPart(present, input_schema, parameters, inputSchema) ==
  [present |-> present, input_schema |-> input_schema, parameters |-> parameters,
   inputSchema |-> inputSchema]

CustomPart(present, input_schema, parameters) ==
  [present |-> present, input_schema |-> input_schema, parameters |-> parameters]

NoFunction == FunctionPart(FALSE, Undefined, Undefined, Undefined)
NoCustom == CustomPart(FALSE, Undefined, Undefined)

Tool(fn, custom, input_schema, parameters, inputSchema) ==
  [input_schema |-> input_schema, parameters |-> parameters,
   inputSchema |-> inputSchema, custom |-> custom, function |-> fn]

FunctionParts ==
  {NoFunction} \cup
  {FunctionPart(TRUE, a, b, c) : a \in SchemaValues, b \in SchemaValues, c \in SchemaValues}

CustomParts ==
  {NoCustom} \cup {CustomPart(TRUE, a, b) : a \in SchemaValues, b \in SchemaValues}

ToolValues ==
  {Tool(fn, cu, a, b, c) : fn \in FunctionParts, cu \in CustomParts,
                           a \in SchemaValues, b \in SchemaValues, c \in SchemaValues}

\* [...].filter(Boolean)[0]
FirstTruthy(candidates) ==
  LET truthy == SelectSeq(candidates, LAMBDA x : x # Undefined)
  IN  IF truthy = <<>> THEN Undefined ELSE truthy[1]

SchemaCandidates(tool) ==
  <<tool.function.input_schema, tool.function.parameters, tool.function.inputSchema,
    tool.custom.input_schema, tool.custom.parameters,
    tool.parameters, tool.input_schema, tool.inputSchema>>

\* schema ?? { type: "object", ... }
OrDefault(schema) == IF schema = Undefined THEN DefaultSchema ELSE schema

NormalizeToolMutSwap(tool) ==
  [tool EXCEPT !.function = [@ EXCEPT !.input_schema = tool.function.parameters,
                                      !.parameters = tool.function.input_schema],
               !.custom = NoCustom]

\* The body of the map over requestPayload.tools for a model that is not a
\* Claude model.
NormalizeTool(tool) ==
  LET schema == FirstTruthy(SchemaCandidates(tool))
      fn     == IF tool.function.present /\ tool.function.input_schema = Undefined
                   /\ schema # Undefined
                  THEN [tool.function EXCEPT !.input_schema = schema]
                  ELSE tool.function
      cu1    == IF tool.custom.present /\ tool.custom.input_schema = Undefined
                   /\ schema # Undefined
                  THEN [tool.custom EXCEPT !.input_schema = schema]
                  ELSE tool.custom
      cu2    == IF ~cu1.present /\ fn.present
                  THEN CustomPart(TRUE, OrDefault(schema), Undefined)
                  ELSE cu1
      cu3    == IF ~cu2.present /\ ~fn.present
                  THEN CustomPart(TRUE, OrDefault(schema), Undefined)
                  ELSE cu2
      cu4    == IF cu3.present /\ cu3.input_schema = Undefined
                  THEN [cu3 EXCEPT !.input_schema = DefaultSchema]
                  ELSE cu3
      \* if (newTool.custom) delete newTool.custom
      cu5    == IF cu4.present THEN NoCustom ELSE cu4
  IN  [tool EXCEPT !.function = fn, !.custom = cu5]

\* requestPayload.tools.map(...)
NormalizeTools(list) == [k \in 1..Len(list) |-> NormalizeTool(list[k])]

\* A request with one tool: the map treats each tool by itself.
ToolInit ==
  /\ accounts = <<>>
  /\ currentIndex = 0
  /\ now = 0
  /\ NoHistory
  /\ NoCodec
  /\ NoStore
  /\ NoRequest
  /\ NoFile
  /\ NoStream
  /\ NoPass
  /\ NoNormalize
  /\ pc = "tools"
  /\ accountCount = 0
  /\ NoCall
  /\ \E tool \in ToolValues : tools = <<tool>>
  /\ normalized = <<>>
  /\ renormalized = <<>>
  /\ NoToken
  /\ answered429 = {}
  /\ saveError = FALSE
  /\ constructed = 0
  /\ marked = NotMarked
  /\ readResult = NotRead
  /\ NoContents
  /\ NoAccessToken

ToolNormalize ==
  /\ pc = "tools"
  /\ normalized' = NormalizeTools(tools)
  /\ pc' = "normalized"
  /\ UNCHANGED <<poolVars, histVars, codecVars, useVars, idVars, readVars, markVars, exportVars, saveVars, endpointVars, tokenVars, storeVars, requestVars, fileVars,
                 responseVars, passVars, normVars, tools, renormalized, accountCount,
                 accountAttempts, account, i, response, lastResponse, lastError,
                 hitRateLimit, outcome, tried, selected, got429, nSelected, nSends>>

\* The output is sent through prepareAntigravityRequest once more.
ToolNormalizeAgain ==
  /\ pc = "normalized"
  /\ renormalized' = NormalizeTools(normalized)
  /\ pc' = "renormalized"
  /\ UNCHANGED <<poolVars, histVars, codecVars, useVars, idVars, readVars, markVars, exportVars, saveVars, endpointVars, tokenVars, storeVars, requestVars, fileVars,
                 responseVars, passVars, normVars, tools, normalized, accountCount,
                 accountAttempts, account, i, response, lastResponse, lastError,
                 hitRateLimit, outcome, tried, selected, got429, nSelected, nSends>>

ToolNext == ToolNormalize \/ ToolNormalizeAgain

ToolSpec == ToolInit /\ [][ToolNext]_vars

(***************************************************************************)
(* prepareAntigravityRequest: ids of functionCall / functionResponse parts *)
(* for Claude models.  The parts of all contents are taken in order; an id *)
(* is 0 when the part has none, a negative number when the caller supplied *)
(* it, and k for the synthetic `tool-call-k`.                              *)
(***************************************************************************)
MaxParts == 4

ToolNames == {"f", "g"}

\* The id the caller gives to a part of its own.
SuppliedId == -1

ToolPart(kind, name, id) == [kind |-> kind, name |-> name, id |-> id]

ToolParts ==
  {ToolPart(kind, name, id) : kind \in {"functionCall", "functionResponse"},
                              name \in ToolNames, id \in {0, SuppliedId}}

Conversations == UNION {[1..n -> ToolParts] : n \in 1..MaxParts}

\* new Map(): no queue for any name.
NoPending == [name \in ToolNames |-> <<>>]

\* First pass: every functionCall without an id gets tool-call-<counter>, and
\* the id of every functionCall is pushed to the queue of its name.
RECURSIVE FirstPass(_, _, _)
FirstPass(parts, toolCallCounter, pending) ==
  IF parts = <<>> THEN [parts |-> <<>>, pending |-> pending]
  ELSE LET part == Head(parts)
       IN  IF part.kind = "functionCall"
             THEN LET counter == IF part.id = 0 THEN toolCallCounter + 1
                                                ELSE toolCallCounter
                      id      == IF part.id = 0 THEN counter ELSE part.id
                      rest    == FirstPass(Tail(parts), counter,
                                           [pending EXCEPT ![part.name] = Append(@, id)])
                  IN  [parts |-> <<[part EXCEPT !.id = id]>> \o rest.parts,
                       pending |-> rest.pending]
             ELSE LET rest == FirstPass(Tail(parts), toolCallCounter, pending)
                  IN  [parts |-> <<part>> \o rest.parts, pending |-> rest.pending]

\* Second pass: every functionResponse without an id takes the first id of
\* the queue of its name, when there is one.
RECURSIVE SecondPass(_, _)
SecondPass(parts, pending) ==
  IF parts = <<>> THEN <<>>
  ELSE LET part == Head(parts)
       IN  IF /\ part.kind = "functionResponse"
              /\ part.id = 0
              /\ pending[part.name] # <<>>
             THEN <<[part EXCEPT !.id = Head(pending[part.name])]>>
                    \o SecondPass(Tail(parts),
                                  [pending EXCEPT ![part.name] = Tail(@)])
             ELSE <<part>> \o SecondPass(Tail(parts), pending)

IdInit ==
  /\ accounts = <<>>
  /\ currentIndex = 0
  /\ now = 0
  /\ NoHistory
  /\ NoCodec
  /\ NoStore
  /\ NoRequest
  /\ NoFile
  /\ NoStream
  /\ NoPass
  /\ NoNormalize
  /\ NoTools
  /\ NoToken
  /\ answered429 = {}
  /\ saveError = FALSE
  /\ constructed = 0
  /\ marked = NotMarked
  /\ readResult = NotRead
  /\ NoAccessToken
  /\ pc = "first"
  /\ accountCount = 0
  /\ NoCall
  /\ conversation \in Conversations
  /\ contents = conversation
  /\ pendingCallIdsByName = NoPending

IdFirstPass ==
  /\ pc = "first"
  /\ LET r == FirstPass(contents, 0, NoPending)
     IN  /\ contents' = r.parts
         /\ pendingCallIdsByName' = r.pending
  /\ pc' = "second"
  /\ UNCHANGED <<poolVars, histVars, codecVars, useVars, readVars, markVars, exportVars, saveVars, endpointVars, tokenVars, toolVars, storeVars, requestVars, fileVars,
                 responseVars, passVars, normVars, conversation, accountCount,
                 accountAttempts, account, i, response, lastResponse, lastError,
                 hitRateLimit, outcome, tried, selected, got429, nSelected, nSends>>

IdSecondPass ==
  /\ pc = "second"
  /\ contents' = SecondPass(contents, pendingCallIdsByName)
  /\ pc' = "assigned"
  /\ UNCHANGED <<poolVars, histVars, codecVars, useVars, readVars, markVars, exportVars, saveVars, endpointVars, tokenVars, toolVars, storeVars, requestVars, fileVars,
                 responseVars, passVars, normVars, conversation, pendingCallIdsByName,
                 accountCount,
                 accountAttempts, account, i, response, lastResponse, lastError,
                 hitRateLimit, outcome, tried, selected, got429, nSelected, nSends>>

IdNext == IdFirstPass \/ IdSecondPass

IdSpec == IdInit /\ [][IdNext]_vars

(***************************************************************************)
(* transformAntigravityResponse: the buffered path and its catch           *)
(***************************************************************************)
ContentTypes == {"application/json", "text/event-stream", "text/html"}

\* What the body text is: JSON with an object under "error", JSON with a
\* string, number or boolean under "error", text that is not JSON, JSON
\* without "error".
Contents == {"errorObject", "errorPrimitive", "notJson", "noError"}

NormalizedStatuses == {200, 400, 429, 503}

\* Response.ok
Ok(status) == status >= 200 /\ status <= 299

\* The retryDelay texts "<seconds>s" of a RetryInfo detail, in tenths of a
\* second; only an error object has details.
MaxTenths == 12

RetryDelays(content) == IF content = "errorObject" THEN 0..MaxTenths ELSE {0}

ErrorTruthyMutParsedOnly(content) == content \in {"errorObject", "errorPrimitive"}

\* errorBody?.error of the parsed body, or of { error: { message: text } }
\* when the text is not JSON.
ErrorTruthy(content) == content \in {"errorObject", "errorPrimitive", "notJson"}

\* retryInfo.retryDelay found through errorBody?.error?.details, in tenths of
\* a second (0: not found).
DetailsRetryDelay(content, delay) == IF content = "errorObject" THEN delay ELSE 0

\* Math.ceil(retrySeconds) and Math.ceil(retrySeconds * 1000)
RetryHeaders(delay) ==
  [retryAfterMs |-> delay * 100, has |-> TRUE, retryAfter |-> (delay + 9) \div 10]

NormalizeInit ==
  /\ accounts = <<>>
  /\ currentIndex = 0
  /\ now = 0
  /\ NoHistory
  /\ NoCodec
  /\ NoStore
  /\ NoRequest
  /\ NoFile
  /\ NoStream
  /\ NoPass
  /\ pc = "transform"
  /\ accountCount = 0
  /\ NoCall
  /\ \E status \in NormalizedStatuses, contentType \in ContentTypes, content \in Contents :
       /\ upstream = UpstreamResponse(status, contentType, content, FALSE)
       /\ retryDelay \in RetryDelays(content)
  /\ streaming \in BOOLEAN
  /\ threw = FALSE
  /\ transformed = NothingReturned
  /\ debugAppended = FALSE
  /\ retryHeaders = NoRetryHeaders
  /\ NoTools
  /\ NoToken
  /\ answered429 = {}
  /\ saveError = FALSE
  /\ constructed = 0
  /\ marked = NotMarked
  /\ readResult = NotRead
  /\ NoContents
  /\ NoAccessToken

\* Neither JSON nor an event stream: return response.  A successful event
\* stream of a streaming call: a new Response around the piped body.
\* Otherwise the try block is entered.
TransformStart ==
  /\ pc = "transform"
  /\ LET isJsonResponse        == upstream.contentType = "application/json"
         isEventStreamResponse == upstream.contentType = "text/event-stream"
     IN  IF ~isJsonResponse /\ ~isEventStreamResponse
           THEN /\ transformed' = Returned("original", upstream.status, upstream.bodyUsed)
                /\ pc' = "returned"
           ELSE IF streaming /\ Ok(upstream.status) /\ isEventStreamResponse
             THEN /\ transformed' = Returned("new", upstream.status, FALSE)
                  /\ pc' = "returned"
             ELSE /\ pc' = "text"
                  /\ UNCHANGED transformed
  /\ UNCHANGED <<poolVars, histVars, codecVars, useVars, idVars, readVars, markVars, exportVars, saveVars, endpointVars, tokenVars, toolVars, storeVars, requestVars, fileVars,
                 responseVars, passVars, upstream, streaming, threw, retryDelay,
                 debugAppended, retryHeaders, accountCount,
                 accountAttempts, account, i, response, lastResponse, lastError,
                 hitRateLimit, outcome, tried, selected, got429, nSelected, nSends>>

\* const text = await response.text(): the body is read; the read delivers
\* the text or rejects (the connection broke while the body arrived).
TransformText ==
  /\ pc = "text"
  /\ upstream' = [upstream EXCEPT !.bodyUsed = TRUE]
  /\ \E delivered \in BOOLEAN :
       /\ threw' = ~delivered
       /\ pc' = IF delivered THEN "normalize" ELSE "catch"
  /\ UNCHANGED <<poolVars, histVars, codecVars, useVars, idVars, readVars, markVars, exportVars, saveVars, endpointVars, tokenVars, toolVars, storeVars, requestVars, fileVars,
                 responseVars, passVars, streaming, transformed, retryDelay,
                 debugAppended, retryHeaders, accountCount,
                 accountAttempts, account, i, response, lastResponse, lastError,
                 hitRateLimit, outcome, tried, selected, got429, nSelected, nSends>>

\* The statements after the read.  For a response that is not ok the body is
\* parsed (text that is not JSON becomes { error: { message: text } }) and
\* with a truthy error the debug text is assigned to errorBody.error.message:
\* a TypeError when error is a primitive (module code is strict).
AssignmentThrows(status, content) == ~Ok(status) /\ content = "errorPrimitive"

\* With a truthy error the Response with the debug text is returned at
\* once; the RetryInfo block comes after that return, then the new Response
\* of the common path.
TransformNormalize ==
  /\ pc = "normalize"
  /\ IF AssignmentThrows(upstream.status, upstream.content)
       THEN /\ threw' = TRUE
            /\ pc' = "catch"
            /\ UNCHANGED <<transformed, debugAppended, retryHeaders>>
       ELSE IF ~Ok(upstream.status) /\ ErrorTruthy(upstream.content)
         THEN /\ debugAppended' = TRUE
              /\ transformed' = Returned("new", upstream.status, FALSE)
              /\ pc' = "returned"
              /\ UNCHANGED <<threw, retryHeaders>>
         ELSE /\ retryHeaders' =
                   IF ~Ok(upstream.status)
                        /\ DetailsRetryDelay(upstream.content, retryDelay) > 0
                     THEN RetryHeaders(DetailsRetryDelay(upstream.content, retryDelay))
                     ELSE retryHeaders
              /\ transformed' = Returned("new", upstream.status, FALSE)
              /\ pc' = "returned"
              /\ UNCHANGED <<threw, debugAppended>>
  /\ UNCHANGED <<poolVars, histVars, codecVars, useVars, idVars, readVars, markVars, exportVars, saveVars, endpointVars, tokenVars, toolVars, storeVars, requestVars, fileVars,
                 responseVars, passVars, upstream, streaming, retryDelay, accountCount,
                 accountAttempts, account, i, response, lastResponse, lastError,
                 hitRateLimit, outcome, tried, selected, got429, nSelected, nSends>>

\* catch (error) { ...; return response; }
TransformCatch ==
  /\ pc = "catch"
  /\ transformed' = Returned("original", upstream.status, upstream.bodyUsed)
  /\ pc' = "returned"
  /\ UNCHANGED <<poolVars, histVars, codecVars, useVars, idVars, readVars, markVars, exportVars, saveVars, endpointVars, tokenVars, toolVars, storeVars, requestVars, fileVars,
                 responseVars, passVars, upstream, streaming, threw, retryDelay,
                 debugAppended, retryHeaders, accountCount,
                 accountAttempts, account, i, response, lastResponse, lastError,
                 hitRateLimit, outcome, tried, selected, got429, nSelected, nSends>>

NormalizeNext ==
  \/ TransformStart
  \/ TransformText
  \/ TransformNormalize
  \/ TransformCatch

NormalizeSpec == NormalizeInit /\ [][NormalizeNext]_vars

(***************************************************************************)
(* The storage-backed AccountManager: save() and the constructor that is   *)
(* given what loadAccounts() read.  getNext() and markRateLimited() are    *)
(* those of the pool.                                                      *)
(***************************************************************************)

StoredAccount(parts, lastUsed, addedAt) ==
  [refreshToken |-> parts.refreshToken, projectId |-> parts.projectId,
   lastUsed |-> lastUsed, addedAt |-> addedAt]

\* The AccountStorage that save() builds.
SaveResult(accts, index, t) ==
  [accounts |-> [k \in 1..Len(accts) |->
                   StoredAccount(accts[k].parts, accts[k].lastUsed,
                                 IF accts[k].lastUsed # 0 THEN accts[k].lastUsed ELSE t)],
   activeIndex |-> index % Max(1, Len(accts))]

\* constructor(auth, storedAccounts) with accounts in storedAccounts.
StorageConstructor(storedAccounts, access, expires) ==
  [k \in 1..Len(storedAccounts.accounts) |->
     [NewAccount(k - 1,
                 [refreshToken |-> storedAccounts.accounts[k].refreshToken,
                  projectId |-> storedAccounts.accounts[k].projectId],
                 IF k = 1 THEN access ELSE Undefined,
                 IF k = 1 THEN expires ELSE Undefined)
        EXCEPT !.lastUsed = storedAccounts.accounts[k].lastUsed]]

\* await accountManager.save()
Save ==
  /\ Step
  /\ storage' = SaveResult(accounts, currentIndex, now)
  /\ savedFrom' = accounts
  /\ UNCHANGED <<accounts, currentIndex, now, ret, run, lastSel, callVars, codecVars, useVars, idVars, readVars, markVars, exportVars, saveVars, endpointVars, tokenVars, toolVars, normVars, passVars, responseVars,
                 storeVars, requestVars>>

\* The process starts again: new AccountManager(auth, await loadAccounts()).
Restart ==
  /\ Step
  /\ Len(storage.accounts) > 0
  /\ accounts' = StorageConstructor(storage, StoredAccess, ExpiresIn * 1000)
  /\ currentIndex' = storage.activeIndex
  /\ ret' = NotCalled
  /\ run' = <<>>
  /\ lastSel' = NoAccount
  /\ UNCHANGED <<now, callVars, codecVars, useVars, idVars, readVars, markVars, exportVars, saveVars, endpointVars, tokenVars, toolVars, normVars, passVars, responseVars, storeVars, requestVars, fileVars>>

StorageNext ==
  \/ GetNext
  \/ MarkRateLimited
  \/ Tick
  \/ Save
  \/ Restart

StorageSpec == Init /\ [][StorageNext]_vars

(***************************************************************************)
(* Two intercepted calls in one process.  A call gives up control at each  *)
(* await: after getAuth(), inside refreshAccessToken(), and at             *)
(* client.auth.set(...).  Nothing in fetch holds a lock across them.       *)
(***************************************************************************)

Calls == {1, 2}

\* payload.refresh_token when the token endpoint rotates the refresh token.
Rotated(token) == token + 5

RefreshedParts(parts, rotate) ==
  [parts EXCEPT !.refreshToken = IF rotate THEN Rotated(parts.refreshToken)
                                           ELSE parts.refreshToken]

InFlight(at, accountManager, stale) ==
  [at |-> at, accountManager |-> accountManager, stale |-> stale]

\* The calls other than c that hold a loaded credential set and have yet to
\* persist it: a write by c makes what they hold older than the store.
Outdated(c) ==
  [d \in Calls |->
     IF d # c /\ inFlight[d].at \in {"loaded", "refreshed"}
       THEN [inFlight[d] EXCEPT !.stale = TRUE]
       ELSE inFlight[d]]

ConcurrentInit ==
  /\ accounts = <<>>
  /\ currentIndex = 0
  /\ now = 0
  /\ NoHistory
  /\ NoCodec
  /\ pc = "concurrent"
  /\ accountCount = 0
  /\ NoCall
  /\ \E n \in 1..MaxAccounts : stored = StoredAuth(n)
  /\ nWrites = 0
  /\ revoked = {}
  /\ calls = 0
  /\ previous = [limited |-> {}, served |-> NoAccount]
  /\ inFlight = [c \in Calls |-> InFlight("idle", <<>>, FALSE)]
  /\ NoRequest
  /\ NoFile
  /\ NoStream
  /\ NoPass
  /\ NoNormalize
  /\ NoTools
  /\ NoToken
  /\ answered429 = {}
  /\ saveError = FALSE
  /\ constructed = 0
  /\ marked = NotMarked
  /\ readResult = NotRead
  /\ NoContents
  /\ NoAccessToken

\* const latestAuth = await getAuth(); new AccountManager(latestAuth)
Load(c) ==
  /\ inFlight[c].at = "idle"
  /\ inFlight' = [inFlight EXCEPT ![c] = InFlight("loaded", AccountManager(stored), FALSE)]
  /\ UNCHANGED <<poolVars, histVars, callVars, codecVars, useVars, idVars, readVars, markVars, exportVars, saveVars, endpointVars, tokenVars, toolVars, normVars, passVars, responseVars, fileVars, requestVars, stored, nWrites, revoked,
                 calls, previous>>

\* refreshed = await refreshAccessToken(...); updateAccount(account,
\* refreshed.access, refreshed.expires, parts) for the account p selected.
Refresh(c) ==
  /\ inFlight[c].at = "loaded"
  /\ \E p \in 1..Len(inFlight[c].accountManager), rotate \in BOOLEAN :
       LET accts == inFlight[c].accountManager
           parts == RefreshedParts(accts[p].parts, rotate)
       IN  /\ accts[p].parts.refreshToken \in 1..MaxAccounts
           /\ inFlight' = [inFlight EXCEPT ![c] =
                 InFlight("refreshed",
                          [UpdateAccount(accts, p, RefreshedAccess, now + ExpiresIn * 1000)
                             EXCEPT ![p].parts = parts],
                          inFlight[c].stale)]
  /\ UNCHANGED <<poolVars, histVars, callVars, codecVars, useVars, idVars, readVars, markVars, exportVars, saveVars, endpointVars, tokenVars, toolVars, normVars, passVars, responseVars, fileVars, requestVars, stored, nWrites, revoked,
                 calls, previous>>

\* await client.auth.set({ ..., body: accountManager.toAuthDetails() })
Persist(c) ==
  /\ inFlight[c].at \in {"loaded", "refreshed"}
  /\ stored' = ToAuthDetails(inFlight[c].accountManager)
  /\ inFlight' = [Outdated(c) EXCEPT ![c].at = "done"]
  /\ UNCHANGED <<poolVars, histVars, callVars, codecVars, useVars, idVars, readVars, markVars, exportVars, saveVars, endpointVars, tokenVars, toolVars, normVars, passVars, responseVars, fileVars, requestVars, nWrites, revoked, calls,
                 previous>>

ConcurrentLoad == \E c \in Calls : Load(c)

ConcurrentRefresh == \E c \in Calls : Refresh(c)

ConcurrentPersist == \E c \in Calls : Persist(c)

ConcurrentNext ==
  \/ ConcurrentLoad
  \/ ConcurrentRefresh
  \/ ConcurrentPersist

ConcurrentSpec == ConcurrentInit /\ [][ConcurrentNext]_vars

(***************************************************************************)
(* Properties of the pool                                                  *)
(***************************************************************************)
\* An account getNext() may select at time t: not rate-limited, or its
\* window is over.
EligibleAt(a, t) == (~a.isRateLimited) \/ t > a.rateLimitResetTime

EligiblePositions == {k \in 1..Len(accounts) : EligibleAt(accounts[k], now)}

PosOf(accts, token) == CHOOSE k \in 1..Len(accts) : Token(accts[k]) = token

\* C1 (as stated): on a pool of N accounts that are all eligible, with no
\* add/remove/markRateLimited in between, the consecutive getNext() calls
\* return index 0, 1, ..., N-1 and call N+1 returns index 0 again.
C1_RoundRobinFromZero ==
  \A k \in 1..Min(Len(run), Len(accounts) + 1) :
    run[k] = (k - 1) % Len(accounts)

\* C1 (amended): on a pool of N accounts that are all eligible, with no
\* add/remove/markRateLimited in between, consecutive getNext() calls visit
\* the accounts in cyclic pool order starting at index (cursor mod N): any N
\* consecutive calls return each account exactly once and call N+1 returns
\* the account of call 1 again. The order is 0, 1, ..., N-1 when the cursor
\* is a multiple of N, as it is on a newly constructed pool.
C1_RoundRobin ==
  LET n == Len(accounts)
  IN  /\ \A k \in 1..Len(run) :
           run[k] = (currentIndex - Len(run) + k - 1) % n
      /\ \A j, k \in 1..Len(run) :
           /\ (j < k /\ k - j < n) => run[j] # run[k]
           /\ (k - j = n) => run[j] = run[k]
      /\ (currentIndex = Len(run) /\ Len(run) > 0) => run[1] = 0

\* N+1 consecutive calls on a pool of three whose cursor was not at 0.
C1_Witness ==
  /\ Len(accounts) = 3
  /\ Len(run) = 4
  /\ run[1] # 0

\* C2 (as stated): after markRateLimited(a, D) at time markedAt, getNext()
\* never returns a while now < markedAt + D, and a is eligible for selection
\* at every time now >= markedAt + D, the instant now = markedAt + D included.
C2_ExcludedThenEligibleFromReset ==
  [][ /\ GetNext =>
           \A k \in 1..Len(accounts) :
             (Token(accounts[k]) = ret') => ~(now < accounts[k].rateLimitResetTime)
      /\ Tick =>
           \A k \in 1..Len(accounts') :
           (now' >= accounts'[k].rateLimitResetTime)
             => \E j \in 1..Len(Available(accounts', now')) :
                  Available(accounts', now')[j] = k
    ]_vars

\* C3 (as stated, for a pool that is not empty): getMinWaitTime() is 0 if and
\* only if some account is eligible for getNext(); with none eligible it is
\* the minimum of (rateLimitResetTime - now) over the rate-limited accounts;
\* it is never negative.
C3_MinWaitZeroIffEligible ==
  LET w       == GetMinWaitTime(accounts, now)
      limited == {k \in 1..Len(accounts) : accounts[k].isRateLimited}
  IN  Len(accounts) > 0 =>
        /\ w >= 0
        /\ (w = 0) <=> (EligiblePositions # {})
        /\ (EligiblePositions = {}) =>
             w = SetMin({accounts[k].rateLimitResetTime - now : k \in limited})

\* C4: getNext() returns null exactly when no account is eligible (each one
\* is rate-limited and its window is not over); otherwise it returns an
\* account, and never one that is rate-limited with its window not over.
C4_NullIffNoneEligible ==
  [][ GetNext =>
        /\ (ret' = NoAccount) <=> (EligiblePositions = {})
        /\ (ret' # NoAccount) =>
             \E k \in EligiblePositions : Token(accounts[k]) = ret'
    ]_vars

\* getNext() has returned null on a pool whose accounts are all rate-limited,
\* and getNext() has returned an account while another one was rate-limited.
C4_Witness ==
  \/ /\ ret = NoAccount
     /\ Len(accounts) >= 2
     /\ EligiblePositions = {}
  \/ /\ ret \in Tokens(accounts)
     /\ \E k \in 1..Len(accounts) :
          /\ ~EligibleAt(accounts[k], now)
          /\ accounts[PosOf(accounts, ret)].lastUsed = now

\* The first eligible position after position p in cyclic pool order.
NextEligibleAfter(p) ==
  LET n    == Len(accounts)
      offs == {d \in 1..n : ((p - 1 + d) % n) + 1 \in EligiblePositions}
  IN  ((p - 1 + SetMin(offs)) % n) + 1

\* C5 (as stated): in a pool of 3 or more accounts, under any interleaving of
\* getNext() and markRateLimited(), getNext() selects the first eligible
\* account after the one selected last, in cyclic pool order.
C5_CyclicOrderAmongEligible ==
  [][ ( /\ GetNext
        /\ Len(accounts) >= 3
        /\ lastSel # NoAccount
        /\ ret' # NoAccount )
      => ret' = Token(accounts[NextEligibleAfter(PosOf(accounts, lastSel))])
    ]_vars

----------------------------------------------------------------------------
\* Properties of the fetch dispatcher.

\* A header holding a plain decimal number.
PlainNumber(h) ==
  /\ h.has
  /\ h.text # <<>>
  /\ \A k \in 1..Len(h.text) : h.text[k] \in Digits

\* The window the header rule gives: retry-after-ms as milliseconds, else
\* retry-after times 1000, else the default.
HeaderRuleMs(resp) ==
  IF resp.retryAfterMs.has THEN ParseInt(resp.retryAfterMs.text).val
  ELSE IF resp.retryAfter.has THEN ParseInt(resp.retryAfter.text).val * 1000
  ELSE DefaultRetryMs

\* C6: on a 429 whose retry headers, where present, are plain numbers, the
\* account is marked until now + (retry-after-ms as milliseconds if present,
\* else retry-after times 1000, else 60000).
C6_RetryWindowFromHeaders ==
  [][(/\ RetryRateLimited
      /\ ~response'.retryAfterMs.has \/ PlainNumber(response'.retryAfterMs)
      /\ ~response'.retryAfter.has \/ PlainNumber(response'.retryAfter))
       => /\ accounts'[account].isRateLimited
          /\ accounts'[account].rateLimitResetTime = now' + HeaderRuleMs(response')]_vars

Retryable(status) == status \in {403, 404} \/ status >= 500

AllExhausted ==
  /\ got429 = Tokens(accounts)
  /\ EligiblePositions = {}

\* C8: a call that ends with every account rate-limited, each having
\* answered 429 during the call, throws the all-accounts-rate-limited error
\* with the wait time of getMinWaitTime().
C8_ExhaustionSurfacesWaitTime ==
  (pc = "done" /\ outcome.kind = "throw" /\ AllExhausted) =>
     /\ outcome.error = "AllRateLimited"
     /\ outcome.waitTimeMs = GetMinWaitTime(accounts, now)

AggregateFailure ==
  /\ pc = "done"
  /\ outcome.kind = "throw"
  /\ outcome.error \in {"AllRateLimited", "FailedWithAnyAccount"}

\* C9: when a call ends with the aggregate failure, every account of the pool
\* has been selected at least once in that call.
C9_AggregateFailureAfterAllTried ==
  AggregateFailure => selected = Tokens(accounts)

\* C10: a call selects an account at most poolSize times, sends at most
\* poolSize x |endpoint list| requests, and ends with a response or an error.
C10_CallTerminatesWithinBounds ==
  /\ [](/\ accountAttempts <= accountCount
        /\ nSelected <= accountCount
        /\ nSends <= accountCount * NumEndpoints)
  /\ <>(pc = "done" /\ outcome.kind \in {"response", "throw"})

\* A call on three accounts that used all of its attempts and all of its sends.
C10_Witness ==
  /\ pc = "done"
  /\ accountCount = 3
  /\ nSelected = accountCount
  /\ nSends = accountCount * NumEndpoints

\* C11: parsing the formatted credential set gives back the set: the same
\* credentials, in the same order, with the same fields.
C11_RoundTrip == pc = "parsed" => multiAccount = credentials

\* C12: of two concurrent calls, none persists a credential set it loaded
\* before the other call's write: every write to the store comes from a call
\* whose loaded set no other call has written over since.
\* The credentials a stored refresh string holds, cleared ones included.
Records(text) ==
  LET recs == Split(text, RecordSeparator)
  IN  [k \in 1..Len(recs) |-> ParseRefreshParts(recs[k])]

C12_PersistSerialized ==
  [][\A c \in Calls :
       (inFlight[c].at # "done" /\ inFlight'[c].at = "done") => ~inFlight[c].stale]_vars

\* C13: a call writes to the credential store at most once, the writes made
\* inside the token refresh included.
C13_AtMostOneWrite == nWrites <= 1

\* C14: when the refresh of one account of a pool of several is answered
\* invalid_grant, the stored set afterwards is the one stored before with
\* that account's refresh token emptied: the other credentials and the
\* order are as they were.
C14_ClearsOnlyThatCredential ==
  [][(revoked' # revoked /\ Len(Records(stored.refresh)) > 1)
       => Records(stored'.refresh)
            = [Records(stored.refresh) EXCEPT ![account].refreshToken = <<>>]]_vars

\* C15: getNext() returns no account whose refresh token is empty and no
\* account whose refresh was answered invalid_grant, in the call of the
\* failure or in a later one.
C15_ClearedCredentialSkipped ==
  [][(nSelected' = nSelected + 1)
       => /\ accounts'[account'].parts.refreshToken # 0
          /\ Token(accounts'[account']) \notin revoked]_vars

\* C16: a call whose body is not valid JSON ends with the translation error
\* after one translation attempt: no other endpoint or account is attempted
\* after it, nothing is sent, no account is marked and nothing is written
\* to the store.
C16_MalformedBodyFailsFast ==
  (body = "malformed" /\ nTranslations > 0) =>
     /\ pc = "done"
     /\ outcome = [kind |-> "throw", error |-> "Translation"]
     /\ nTranslations = 1
     /\ nSends = 0
     /\ nWrites = 0
     /\ \A p \in 1..Len(accounts) : ~accounts[p].isRateLimited

\* The answer of an endpoint is a 403, 404 or 5xx status or an exception.
EndpointFailure(resp) ==
  \/ resp.kind = "throw"
  \/ resp.kind = "http" /\ Retryable(resp.status)

C18_RateLimitOrServerErrorSwitches ==
  [][(/\ nSends' = nSends + 1
      /\ response'.kind = "http"
      /\ response'.status \in {429, 500})
       => /\ accounts'[account].isRateLimited
          /\ pc' = "loop"]_vars

\* C19: when the call before was served with a 200, the first account the
\* next call selects is the one that served it, and is no account that the
\* call before left rate-limited with its window still open.
C19_StickySelection ==
  [][(calls > 0 /\ nSelected = 0 /\ nSelected' = 1 /\ previous.served # NoAccount)
       => /\ Token(accounts'[account']) = previous.served
          /\ \A a \in previous.limited :
               now <= a.until => Token(accounts'[account']) # a.acct]_vars

\* C20: an account that was rate-limited when the manager was saved is
\* rate-limited in the manager built from the saved storage, as long as its
\* window has not expired: getNext() of the new manager does not count it
\* among the available accounts.
C20_RateLimitSurvivesRestart ==
  [][(storage' = storage /\ savedFrom' = savedFrom /\ ret' = NotCalled /\ ops' = ops + 1
      /\ accounts' = StorageConstructor(storage, StoredAccess, ExpiresIn * 1000))
       => \A p \in 1..Len(savedFrom) :
            (savedFrom[p].isRateLimited /\ ~(now > savedFrom[p].rateLimitResetTime))
              => ~Filter(accounts'[p], now)]_vars

\* C21: however the body is cut into chunks, what the transform has enqueued
\* once it is flushed is what it enqueues for the body fed as one chunk.
C21_ChunkBoundaryInvariance ==
  pc = "flushed" => enqueued = OneChunk(sseBody)

\* A body of two events, the first rewritten, that arrived one character at
\* a time: the delimiter was cut in two.
C21_Witness ==
  /\ pc = "flushed"
  /\ sseBody = <<"d", "r", "\n", "\n", "r">>
  /\ nChunks = Len(sseBody)
  /\ enqueued = <<"d", " ", "t", "\n", "\n", "r">>

\* The request is for the Generative Language API.
TargetsApi(req) == req.host = "generativelanguage.googleapis.com"

\* C22: a call whose request is not for the API selects no account, sends
\* nothing with an account's token, marks no account, writes nothing to the
\* store, and ends having handed the request to fetch as it was given.
C22_NonMatchingPassesThrough ==
  ~TargetsApi(input) =>
     /\ nSelected = 0
     /\ nSends = 0
     /\ nWrites = 0
     /\ revoked = {}
     /\ \A p \in 1..Len(accounts) : ~accounts[p].isRateLimited
     /\ pc = "done" => forwarded = input

\* C23: removeAccount(index) with index below 0 or not below the number of
\* accounts returns false and leaves the pool as it was; with an index inside
\* the pool it returns true, the pool is one shorter, the accounts before the
\* index are untouched, and each account after it has moved one position down
\* with its index field one lower and nothing else changed.
C23_RemoveAccount ==
  [][\A index \in RemoveIndices :
       RemoveAccountAt(index) =>
         IF index < 0 \/ index >= Len(accounts)
           THEN ret' = ReturnedFalse /\ accounts' = accounts
           ELSE /\ ret' = ReturnedTrue
                /\ Len(accounts') = Len(accounts) - 1
                /\ \A k \in 1..index : accounts'[k] = accounts[k]
                /\ \A k \in (index + 1)..Len(accounts') :
                     accounts'[k] = [accounts[k + 1] EXCEPT !.index = @ - 1]
    ]_vars

\* The middle account of three has been removed after the third was marked
\* rate-limited: the first and the third remain, the third at index 1.
C23_Witness ==
  /\ ret = ReturnedTrue
  /\ Len(accounts) = 2
  /\ Token(accounts[1]) = 1
  /\ Token(accounts[2]) = 3
  /\ accounts[2].index = 1
  /\ accounts[2].isRateLimited

\* C24: in every state the pool reaches by construction, addAccount,
\* removeAccount, getNext, markRateLimited and updateAccount, the index field
\* of the account at each position is that position counted from 0; and a
\* step that is not a removeAccount leaves the index of every account it
\* found in the pool as it was.
C24_IndexIsPosition ==
  /\ [](\A k \in 1..Len(accounts) : accounts[k].index = k - 1)
  /\ [][(~RemoveAccount) =>
          /\ Len(accounts') >= Len(accounts)
          /\ \A k \in 1..Len(accounts) : accounts'[k].index = accounts[k].index
       ]_vars

\* Each operation has acted: the second of three accounts was removed and a
\* new one added in its place at the end, one account was refreshed, one
\* marked, and getNext() has returned an account.
C24_Witness ==
  /\ Len(accounts) = 3
  /\ Token(accounts[2]) = 3
  /\ accounts[3].index = 2
  /\ accounts[3].access = Undefined
  /\ accounts[2].access = RefreshedAccess
  /\ accounts[1].isRateLimited
  /\ ret = 3

\* C25: when a statement of the response normalization has thrown,
\* transformAntigravityResponse has returned the response it was given, with
\* its status, and the body of that response can still be read.
C25_ThrowReturnsReadableOriginal ==
  (pc = "returned" /\ threw) =>
     /\ transformed.which = "original"
     /\ transformed.status = upstream.status
     /\ ~transformed.bodyUsed

\* C26: for a model of the default family, normalizing the tool list that the
\* normalization produced gives that same tool list.
C26_ToolNormalizationIdempotent ==
  pc = "renormalized" => renormalized = normalized

\* A function tool whose schema is under parameters, with another schema in
\* its custom wrapper: the first pass copied parameters to input_schema and
\* removed the wrapper, the second pass has run.
C26_Witness ==
  /\ pc = "renormalized"
  /\ tools[1].function = FunctionPart(TRUE, Undefined, 1, Undefined)
  /\ tools[1].custom = CustomPart(TRUE, 2, Undefined)
  /\ normalized[1].function = FunctionPart(TRUE, 1, 1, Undefined)
  /\ normalized[1].custom = NoCustom

C28_RefreshFailureAdvances ==
  [][(pc = "refresh" /\ pc' = "loop") =>
       LET next == GetNextResult(accounts', currentIndex', now')
       IN  /\ accountAttempts' = accountAttempts + 1
           /\ tried = <<>>
           /\ nSends' = nSends
           /\ nTranslations' = nTranslations
           /\ (ShouldAttempt(accountAttempts', accountCount) /\ next.pos # 0)
                => next.pos # account
     ]_vars

\* C29: an account that was answered 429 by endpoint i is sent to no
\* endpoint after i in the same call; the 429 ends the iteration with the
\* attempt counted and the call back at the selection of an account; and a
\* call that ends after a 429 does not return a response that an earlier
\* endpoint gave that account.
C29_NoEndpointAfter429 ==
  [][/\ (nSends' = nSends + 1) =>
          \A g \in answered429 :
            g.acct = Token(accounts[account]) => ~(i > g.endpoint)
     /\ (got429' # got429) =>
          /\ pc' = "loop"
          /\ lastResponse' = NoResponse
          /\ accountAttempts' = accountAttempts + 1
    ]_vars

\* C30: when the last endpoint threw for an account and an earlier endpoint
\* had given it an HTTP response, no 429 among them, the call has returned
\* that response.
C30_LastResponseReturned ==
  (/\ pc = "done"
   /\ Len(tried) = NumEndpoints
   /\ tried[NumEndpoints].status = 0
   /\ lastResponse # NoResponse)
    => /\ outcome.kind = "response"
       /\ outcome.status = lastResponse.status

\* C31: a response whose status is not 429 and is none of 403/404/5xx unless
\* the endpoint is the last one ends the call with that response returned;
\* the store then holds the pool's credential set, or, when the write threw,
\* what it held before, and the response is returned either way.
C31_SaveBeforeReturn ==
  [][(/\ nSends' = nSends + 1
      /\ response'.kind = "http"
      /\ response'.status # 429
      /\ ~Retryable(response'.status) \/ i = NumEndpoints - 1)
       => /\ pc' = "done"
          /\ outcome'.kind = "response"
          /\ outcome'.status = response'.status
          /\ ~saveError' => stored' = ToAuthDetails(accounts)
          /\ saveError' => stored' = stored]_vars

\* A response returned after the write of a refreshed pool threw.
C31_Witness ==
  /\ pc = "done"
  /\ outcome.kind = "response"
  /\ saveError
  /\ stored # ToAuthDetails(accounts)

\* C32: the exported set lists every account's credential in pool order (its
\* records are read back here for pools in which every account has a refresh
\* token) and carries the access token and expiry of the account at position
\* 0, after removeAccount(0) those of the account that was second; a pool
\* constructed from an exported set gives the exported access token and
\* expiry to position 0 and to no other account.
C32_PrimaryToken ==
  /\ [](Len(accounts) > 0 =>
          LET auth == ToAuthDetails(accounts)
          IN  /\ (\A k \in 1..Len(accounts) : Token(accounts[k]) # 0)
                   => Split(auth.refresh, RecordSeparator)
                        = [k \in 1..Len(accounts) |->
                             FormatRefreshParts(PartsText(accounts[k].parts))]
              /\ auth.access = accounts[1].access
              /\ auth.expires = accounts[1].expires)
  /\ [][(/\ constructed' = constructed
          /\ Len(accounts') = Len(accounts) - 1
          /\ Len(accounts') > 0
          /\ Token(accounts'[1]) # Token(accounts[1]))
          => /\ ToAuthDetails(accounts').access = accounts[2].access
             /\ ToAuthDetails(accounts').expires = accounts[2].expires]_vars
  /\ [][constructed' = constructed + 1 =>
          /\ Len(accounts') > 0
          /\ accounts'[1].access = stored.access
          /\ accounts'[1].expires = stored.expires
          /\ \A k \in 2..Len(accounts') :
               /\ accounts'[k].access = Undefined
               /\ accounts'[k].expires = Undefined]_vars

\* A pool of two accounts constructed from the set exported after
\* removeAccount(0) took away the account that held the refreshed token.
C32_Witness ==
  /\ constructed > 0
  /\ Len(accounts) = 2
  /\ ret = ReturnedTrue
  /\ stored.access = Undefined
  /\ accounts = AccountManager(stored)

\* C33: markRateLimited(a, d) at time t leaves a rate-limited with the reset
\* time t + d whatever window a had before, and changes no other field of a,
\* no other account and not the cursor.
C33_MarkReplacesWindow ==
  [][marked' # marked =>
       LET p == marked'.pos
           d == marked'.retryAfterMs
       IN  /\ accounts'[p].isRateLimited
           /\ accounts'[p].rateLimitResetTime = now + d
           /\ accounts' = [accounts EXCEPT ![p].isRateLimited = TRUE,
                                           ![p].rateLimitResetTime = now + d]
           /\ \A k \in 1..Len(accounts) : k # p => accounts'[k] = accounts[k]
           /\ Len(accounts') = Len(accounts)
           /\ currentIndex' = currentIndex]_vars

\* A call with a window that ends before the pending one has replaced it.
C33_Witness ==
  /\ marked.pos # 0
  /\ marked.op = ops
  /\ accounts[marked.pos].isRateLimited
  /\ accounts[marked.pos].rateLimitResetTime = now + marked.retryAfterMs
  /\ marked.resetBefore > accounts[marked.pos].rateLimitResetTime

\* C34: an account's isRateLimited goes from true to false only in a
\* getNext() and only when now > rateLimitResetTime; getMinWaitTime(),
\* getAccounts(), toAuthDetails() and accountToAuth() leave every account and
\* the cursor as they are.
C34_ClearedOnlyBySelection ==
  [][/\ \A k \in 1..Len(accounts) :
          (k <= Len(accounts') /\ accounts[k].isRateLimited
             /\ ~accounts'[k].isRateLimited)
            => /\ GetNext
               /\ now > accounts[k].rateLimitResetTime
     /\ readResult' # readResult =>
          /\ accounts' = accounts
          /\ currentIndex' = currentIndex]_vars

\* getMinWaitTime() has answered 0 for a pool whose only account still has
\* the flag of a window that is over.
C34_Witness ==
  /\ readResult.method = "getMinWaitTime"
  /\ readResult.value = 0
  /\ \A k \in 1..Len(accounts) :
       accounts[k].isRateLimited /\ now > accounts[k].rateLimitResetTime

\* C35: until the stream ends, what has been enqueued is the complete frames
\* of the part of the body read so far, each transformed and followed by the
\* blank-line delimiter, and nothing of the frame still open; the buffer is
\* that open frame and holds no delimiter.
C35_NoPartialFrame ==
  pc = "stream" =>
    LET consumed == SubSeq(sseBody, 1, Len(sseBody) - Len(source))
        events   == Split(consumed, EventDelimiter)
        emitted  == Split(enqueued, EventDelimiter)
    IN  /\ emitted[Len(emitted)] = <<>>
        /\ \A k \in 1..(Len(emitted) - 1) : Trim(emitted[k]) # <<>>
        /\ enqueued = EnqueueEvents(SubSeq(events, 1, Len(events) - 1))
        /\ buffer = events[Len(events)]
        /\ Len(Split(buffer, EventDelimiter)) = 1

\* A body read one character at a time, so that the delimiter arrived in two
\* chunks: the first frame has been forwarded, the second is held back.
C35_Witness ==
  /\ pc = "stream"
  /\ sseBody = <<"d", "r", "\n", "\n", "r">>
  /\ source = <<>>
  /\ nChunks = Len(sseBody)
  /\ enqueued = <<"d", " ", "t", "\n", "\n">>
  /\ buffer = <<"r">>

\* C36: whatever path the normalization takes, the response it returns has
\* the status of the upstream response; and for a status outside 200..299
\* whose body is JSON with an error object, or text that is not JSON (the
\* synthesized envelope), the returned body has the debug text appended to
\* error.message.
C36_StatusUnchanged ==
  pc = "returned" =>
    /\ transformed.status = upstream.status
    /\ (/\ upstream.status \notin 200..299
        /\ upstream.contentType # "text/html"
        /\ upstream.content \in {"errorObject", "notJson"}
        /\ ~threw)
         => transformed.which = "new" /\ debugAppended

\* A 503 whose body is not JSON, returned with the synthesized envelope and
\* the debug text.
C36_Witness ==
  /\ pc = "returned"
  /\ upstream.status = 503
  /\ upstream.content = "notJson"
  /\ transformed = Returned("new", 503, FALSE)
  /\ debugAppended

\* C37: a response with a status outside 200..299 and a JSON body whose
\* error has a RetryInfo detail with retryDelay "<seconds>s", seconds > 0, is
\* returned with Retry-After = ceil(seconds) and retry-after-ms =
\* ceil(seconds * 1000).
C37_RetryDelayBecomesHeaders ==
  (/\ pc = "returned"
   /\ upstream.status \notin 200..299
   /\ upstream.contentType = "application/json"
   /\ upstream.content = "errorObject"
   /\ retryDelay > 0
   /\ ~threw)
    => /\ retryHeaders.has
       /\ retryHeaders.retryAfter * 10 >= retryDelay
       /\ (retryHeaders.retryAfter - 1) * 10 < retryDelay
       /\ retryHeaders.retryAfterMs = retryDelay * 100

\* The functionCall parts of the same name that no result before position k
\* carries the id of.
UnmatchedCalls(k) ==
  {j \in 1..Len(contents) :
     /\ contents[j].kind = "functionCall"
     /\ contents[j].name = contents[k].name
     /\ ~\E r \in 1..(k - 1) :
          /\ contents[r].kind = "functionResponse"
          /\ contents[r].id = contents[j].id}

\* C38: after the two passes every functionCall has an id, and every
\* functionResponse the caller sent without an id has the id of the first
\* functionCall of its name that no earlier result is matched to, also in
\* conversations where some parts came with an id of the caller.
C38_FirstInvokedFirstMatched ==
  pc = "assigned" =>
    \A k \in 1..Len(contents) :
      /\ contents[k].kind = "functionCall" => contents[k].id # 0
      /\ (/\ contents[k].kind = "functionResponse"
          /\ conversation[k].id = 0
          /\ UnmatchedCalls(k) # {})
           => contents[k].id = contents[SetMin(UnmatchedCalls(k))].id

\* C39: the account a getNext() of the call returns has not been answered
\* HTTP 429 earlier in the same call, whatever retry headers came with the
\* 429.
C39_NoReselectionAfter429 ==
  [][(nSelected' = nSelected + 1 /\ account' # 0)
       => Token(accounts'[account']) \notin got429]_vars

\* C40: every upstream send of a call carries the access token of the
\* account selected for the attempt; that token is not empty and either
\* passed the expiry check of this attempt or was returned by a refresh that
\* succeeded in this attempt; after a failed refresh or with no access token
\* the attempt sends nothing.
C40_SendsWithValidToken ==
  [][nSends' = nSends + 1 =>
       /\ account # 0
       /\ accessToken # Undefined
       /\ accessToken = accounts[account].access
       /\ tokenSource \in {"unexpired", "refreshed"}
       /\ tokenSource = "refreshed" => accessToken = RefreshedAccess]_vars

\* A request sent with the token of a refresh, for an account that was
\* stored without an access token.
C40_Witness ==
  /\ nSends > 0
  /\ account > 1
  /\ tokenSource = "refreshed"
  /\ accessToken = RefreshedAccess
  /\ accounts[account].access = RefreshedAccess

====
